---- MODULE Spec2Model ----
(***************************************************************************)
(* Session and handoff layer of the kodiak game server: ArenaContext       *)
(* (send_player / send_player_impl / receive_player), the relay dispatcher *)
(* SendPlasmaRequest::send and the per-client chat data carried across a   *)
(* handoff.  A panic is modelled as Rust executes it: the call stops at    *)
(* the panic and every assignment made before it stays in the arena.       *)
(***************************************************************************)
EXTENDS Integers, Sequences, FiniteSets, TLC

\* ------------------------------------------------------------------ bounds
\* Number of client PlayerIds PlayerId::nth_client hands out.
NumClientIds == 3
\* Number of RedirectedPlayer payloads issued in a behaviour.
MaxPayloads == 1
\* Number of times the clock advances in a behaviour.
MaxAdvances == 1
\* Capacity of the bounded channel to the relay.
ChannelCapacity == 1
\* Seconds the clock advances by in one step.
ClockStep == 10
\* Number of chat messages broadcast in a behaviour.
MaxBroadcasts == 1
\* Number of chat messages sent, and of reports accepted, in a behaviour.
MaxChats == 2
\* Number of commands sent and requests forwarded to the relay, in a behaviour.
MaxCommands == 1
\* Number of requests an arena hands to the relay dispatcher in a behaviour.
MaxSends == 2
\* Number of victories tallied for a client in a behaviour.
MaxVictories == 1
\* Number of Chat updates broadcast on top of the history an arena starts with.
MaxHistory == 2
MaxReports == 2
\* The latest time, in milliseconds, the wall clock shows.
MaxMillis == 3

\* --------------------------------------------------------------- constants
\* The cap of a client's muted set (mute_player) and the capacity of the
\* recent-message history (ChatRepo.recent).
MaxMuted == 32
RecentCapacity == 16
\* The cap of a client's reported set and the aliveness threshold, in
\* seconds, of report; the largest u32 and u16; the two hard ceilings of
\* the bot count and the largest bot aggression.
MaxReported == 6
ReportAliveSeconds == 60
U16Max == 65535
HardMaxBotsDebug == 64
HardMaxBots == 1024
MaxBotAggression == 10

\* ------------------------------------------------------------- value sets
\* Option<T>: None is the empty tuple, Some(x) the one-element tuple.
None == <<>>
Some(x) == <<x>>
Unwrap(o) == o[1]

Arenas == {"A", "B"}
\* The arena the model's send calls are made on, and the one they send to.
Origin == "A"
Destination == "B"
ClientIds == 0 .. (NumClientIds - 1)
IpAddrs == {1, 2}
\* Reconnection tokens; FreshTokens are those PlayerClientData::new may draw
\* for a reconstituted player.
Tokens == {"t1", "t2"}
FreshTokens == Tokens

ArenaIdOf(realm_id, scene_id) == [realm_id |-> realm_id, scene_id |-> scene_id]

\* Where each arena runs (Topology::new).
SameRealmTwoServers ==
  [A |-> [local_server_id |-> 1, local_arena_id |-> ArenaIdOf(0, 0)],
   B |-> [local_server_id |-> 2, local_arena_id |-> ArenaIdOf(0, 1)]]
TwoRealmsOneServer ==
  [A |-> [local_server_id |-> 1, local_arena_id |-> ArenaIdOf(0, 0)],
   B |-> [local_server_id |-> 1, local_arena_id |-> ArenaIdOf(1, 0)]]
TwoRealmsTwoServers ==
  [A |-> [local_server_id |-> 1, local_arena_id |-> ArenaIdOf(1, 0)],
   B |-> [local_server_id |-> 2, local_arena_id |-> ArenaIdOf(2, 0)]]

\* A deployment: the topology, the game's LIMBO constant (seconds), the
\* no_plasma build feature, whether a relay socket exists, and the clients
\* present in each arena when the model starts (id -> how the client got
\* there: "connected" and playing, "fresh" from a first connection, or
\* "arrived" by an earlier handoff).
Deployments ==
  { [ topology |-> SameRealmTwoServers,
      LIMBO |-> 0, no_plasma |-> FALSE, web_socket |-> TRUE,
      population |-> [A |-> [i \in {0} |-> "fresh"],
                      B |-> [i \in {} |-> "connected"]] ],
    [ topology |-> SameRealmTwoServers,
      LIMBO |-> 0, no_plasma |-> FALSE, web_socket |-> TRUE,
      population |-> [A |-> [i \in {2} |-> "connected"],
                      B |-> [i \in {0} |-> "connected"]] ],
    [ topology |-> TwoRealmsOneServer,
      LIMBO |-> 2, no_plasma |-> FALSE, web_socket |-> FALSE,
      population |-> [A |-> [i \in {1} |-> "connected"],
                      B |-> [i \in ClientIds \ {1} |-> "connected"]] ],
    [ topology |-> TwoRealmsTwoServers,
      LIMBO |-> 2, no_plasma |-> TRUE, web_socket |-> TRUE,
      population |-> [A |-> [i \in {2} |-> "arrived"],
                      B |-> [i \in ClientIds |-> "connected"]] ] }

\* SessionData: the visitor id, the visitor's nick name and whether the
\* visitor is a moderator or an admin.
Session(visitor_id, moderator, admin) ==
  [visitor_id |-> visitor_id, nick_name |-> None,
   moderator |-> moderator, admin |-> admin]

\* ClientMetricData: when play started and stopped, whether the client
\* complained in chat.
Metrics(play_started, play_stopped) ==
  [play_started |-> play_started, play_stopped |-> play_stopped, complained |-> FALSE]

\* What a connecting client brings: address, session and play metrics.
ClientProfiles ==
  { [ip_address |-> 1, session |-> Session(None, FALSE, FALSE),
     metrics |-> Metrics(None, None)],
    [ip_address |-> 2, session |-> Session(Some("v7"), FALSE, FALSE),
     metrics |-> Metrics(Some(0), None)],
    [ip_address |-> 2, session |-> Session(Some("v7"), FALSE, FALSE),
     metrics |-> Metrics(Some(0), Some(0))] }

\* The observer handle and activity data a network attach supplies.
Attachments == { [observer |-> "obs3", active |-> Some("spectating")] }

\* ------------------------------------------------------------ ClientStatus
Pending(expiry) == [kind |-> "Pending", expiry |-> expiry]
Connected(observer, active) ==
  [kind |-> "Connected", observer |-> observer, active |-> active]
Limbo(expiry) == [kind |-> "Limbo", expiry |-> expiry]
Redirected(expiry, server_id, observer, active, send_close) ==
  [kind |-> "Redirected", expiry |-> expiry, server_id |-> server_id,
   id_token |-> None, observer |-> observer, active |-> active,
   send_close |-> send_close]
LeavingLimbo == [kind |-> "LeavingLimbo"]

\* ---------------------------------------------------------------- helpers
Max(x, y) == IF x >= y THEN x ELSE y

Insert(f, k, v) == [x \in (DOMAIN f) \cup {k} |-> IF x = k THEN v ELSE f[x]]
Remove(f, k) == [x \in (DOMAIN f) \ {k} |-> f[x]]

VARIABLES
  deployment,   \* the element of Deployments this run uses
  now,          \* Instant::now(), in seconds
  players,      \* players[a]: the PlayerRepo of arena a, PlayerId -> Player
  chat_repo,    \* chat_repo[a]: the ChatRepo serving arena a
  requests,     \* requests[a]: what arena a handed to send_to_plasma.send
  local,        \* local[s]: updates delivered to server s's local recipient
  web_socket,   \* web_socket[s]: requests queued to the relay by server s
  issued,       \* RedirectedPlayer payloads returned so far, with envelope
  result,       \* the last call: operation, arguments, outcome, return value
  metric_repo,  \* metric_repo[a]: the counters of the MetricRepo of arena a
  plasma,       \* plasma[a]: requests arena a's chat gave to PlasmaActlet::do_request
  unix_millis,  \* NonZeroUnixMillis::now(), the wall clock in milliseconds
  settings      \* settings[a]: the engine settings of arena a

vars == <<deployment, now, players, chat_repo, requests, local, web_socket, issued, result,
          metric_repo, plasma, unix_millis, settings>>

Servers == {1, 2}

topology(a) == deployment.topology[a]

\* --------------------------------------------------------- chat data types
\* MessageDto of the synthetic welcome message.
WelcomeMessage(server_number, arena_id) ==
  [authority |-> TRUE, authentic |-> FALSE, whisper |-> FALSE,
   message |-> [kind |-> "Welcome", server_number |-> server_number, arena_id |-> arena_id]]

\* ChatInbox::write: the inbox keeps each message with its attribution; a
\* message's number is its position.
InboxWrite(inbox, message, attribution) ==
  Append(inbox, [message |-> message, attribution |-> attribution])

\* ClientChatData::default()
DefaultClientChatData == [muted |-> {}, inbox |-> <<>>, join_announced |-> None]

\* A variant that mutes by the receiver's say, attribution or not.
ChatReceiveUnattributedToo(chat, message, attribution) ==
  IF chat.muted # {} /\ (attribution = None \/ Unwrap(attribution).sender_ip \in chat.muted)
  THEN chat
  ELSE [chat EXCEPT !.inbox = InboxWrite(chat.inbox, message, attribution)]

\* ClientChatData::receive
ChatReceive(chat, message, attribution) ==
  IF attribution # None /\ Unwrap(attribution).sender_ip \in chat.muted
  THEN chat
  ELSE [chat EXCEPT !.inbox = InboxWrite(chat.inbox, message, attribution)]

RECURSIVE ReceiveAll(_, _)
ReceiveAll(chat, entries) ==
  IF entries = <<>> THEN chat
  ELSE ReceiveAll(ChatReceive(chat, Head(entries).message, Head(entries).attribution),
                  Tail(entries))

\* The counters of MetricRepo the chat touches, and the engine part of
\* ArenaSettingsDto::default().
DefaultMetricRepo == [abuse_reports |-> 0, chats |-> 0]
DefaultSettings == [bots |-> None, bot_aggression |-> None]

\* ChatRepo::default()
DefaultChatRepo ==
  [recent |-> <<>>, last_timestamp |-> 1,
   \* history: every entry ever saved, and the number of broadcasts
   saved |-> <<>>, broadcasts |-> 0]

\* A variant that greets first and back-fills after.
initialize_client_welcome_first(repo, server_number, arena_id) ==
  ReceiveAll(ChatReceive(DefaultClientChatData,
                         WelcomeMessage(server_number, arena_id), None),
             repo.recent)

\* ChatRepo::initialize_client
initialize_client(repo, server_number, arena_id) ==
  ChatReceive(ReceiveAll(DefaultClientChatData, repo.recent),
              WelcomeMessage(server_number, arena_id), None)

\* ChatInbox::attribute: the attribution of the message with that number.
InboxAttribute(inbox, message_number) ==
  IF message_number \in DOMAIN inbox THEN inbox[message_number].attribution ELSE None

\* A variant that, where the requester's inbox stores no attribution,
\* takes the one another client's inbox stores for that number.
sender_attribution_any_inbox(req_player_id, message_number, repo) ==
  IF req_player_id \notin DOMAIN repo THEN None
  ELSE IF repo[req_player_id].inner # "Client" THEN None
  ELSE LET own == InboxAttribute(repo[req_player_id].client.chat.inbox, message_number)
           others == {InboxAttribute(repo[p].client.chat.inbox, message_number) :
                        p \in {q \in DOMAIN repo : repo[q].inner = "Client"}} \ {None}
       IN IF own # None \/ others = {} THEN own ELSE CHOOSE a \in others : TRUE

\* ChatRepo::sender_attribution
sender_attribution(req_player_id, message_number, repo) ==
  IF req_player_id \notin DOMAIN repo THEN None
  ELSE IF repo[req_player_id].inner # "Client" THEN None
  ELSE InboxAttribute(repo[req_player_id].client.chat.inbox, message_number)

\* A variant that mutes without a cap.
mute_player_uncapped(req_player_id, mute_message_number, repo) ==
  LET attribution == sender_attribution(req_player_id, mute_message_number, repo)
  IN IF attribution = None
     THEN [players |-> repo, ret |-> [err |-> "unknown sender"]]
     ELSE LET mute_ip == Unwrap(attribution).sender_ip
          IN IF mute_ip \notin repo[req_player_id].client.chat.muted
             THEN [players |-> [repo EXCEPT ![req_player_id].client.chat.muted =
                                  @ \cup {mute_ip}],
                   ret |-> [ok |-> [kind |-> "Muted", number |-> mute_message_number]]]
             ELSE [players |-> repo, ret |-> [err |-> "already muted"]]

\* ChatRepo::mute_player on the PlayerRepo `repo`: the repo it leaves and
\* its Result.
mute_player(req_player_id, mute_message_number, repo) ==
  LET attribution == sender_attribution(req_player_id, mute_message_number, repo)
  IN IF attribution = None
     THEN [players |-> repo, ret |-> [err |-> "unknown sender"]]
     ELSE LET mute_ip == Unwrap(attribution).sender_ip
              muted == repo[req_player_id].client.chat.muted
          IN IF Cardinality(muted) >= MaxMuted
             THEN [players |-> repo, ret |-> [err |-> "too many muted"]]
             ELSE IF mute_ip \notin muted
             THEN [players |-> [repo EXCEPT ![req_player_id].client.chat.muted =
                                  @ \cup {mute_ip}],
                   ret |-> [ok |-> [kind |-> "Muted", number |-> mute_message_number]]]
             ELSE [players |-> repo, ret |-> [err |-> "already muted"]]

\* A variant that keeps the oldest entries when it is full.
RecentWriteKeepOldest(recent, entry) ==
  IF Len(recent) < RecentCapacity THEN Append(recent, entry) ELSE recent

\* HistoryBuffer::write on `recent`: the oldest entry goes when it is full.
RecentWrite(recent, entry) ==
  IF Len(recent) < RecentCapacity THEN Append(recent, entry)
  ELSE Append(Tail(recent), entry)

\* ChatRepo::broadcast_message over the clients of one arena: the player
\* repo and the chat repo it leaves.
broadcast_message(chat, repo, message, attribution, sender_player_id, save_recent) ==
  [players |->
     [player_id \in DOMAIN repo |->
        IF repo[player_id].inner = "Client"
        THEN [repo[player_id] EXCEPT !.client.chat =
                ChatReceive(@, message,
                            IF sender_player_id # Some(player_id)
                            THEN attribution ELSE None)]
        ELSE repo[player_id]],
   chat_repo |-> IF save_recent
                 THEN [chat EXCEPT !.recent =
                         RecentWrite(@, [message |-> message, attribution |-> attribution])]
                 ELSE chat]

\* ------------------------------------------------------- player regulator
\* The occupancy regulator of a player: Inactive (new), Joining (join was
\* called), Active, Leaving.
RegulatorActive(regulator) == regulator = "Active"
RegulatorJoin(regulator) ==
  [ok |-> regulator = "Inactive",
   regulator |-> IF regulator = "Inactive" THEN "Joining" ELSE regulator]
RegulatorLeaveNow(regulator) == "Leaving"

\* PlayerClientData::new(chat, metrics, ip_address): a fresh random token,
\* a default session, status Pending.
PlayerClientDataNew(chat, metrics, ip_address, token, t) ==
  [token |-> token, ip_address |-> ip_address, session |-> Session(None, FALSE, FALSE),
   chat |-> chat, metrics |-> metrics, status |-> Pending(t + 10), quests |-> <<>>,
   reported |-> {}]

\* Player::new(PlayerInner::Client(client))
PlayerNew(client) ==
  [inner |-> "Client", client |-> client, regulator |-> "Inactive",
   alias |-> "Guest", team_id |-> None, alive_duration |-> None,
   was_alive |-> FALSE, was_ever_alive |-> FALSE,
   sends |-> 0, origin |-> None]

\* ----------------------------------------------------------- moderation
\* A variant that tells whether the address was muted.
unmute_player_telling(req_player_id, unmute_message_number, repo) ==
  LET attribution == sender_attribution(req_player_id, unmute_message_number, repo)
  IN IF attribution = None
     THEN [players |-> repo, ret |-> [err |-> "unknown sender"]]
     ELSE IF Unwrap(attribution).sender_ip \notin repo[req_player_id].client.chat.muted
     THEN [players |-> repo, ret |-> [err |-> "not muted"]]
     ELSE [players |-> [repo EXCEPT ![req_player_id].client.chat.muted =
                          @ \ {Unwrap(attribution).sender_ip}],
           ret |-> [ok |-> [kind |-> "Unmuted", number |-> unmute_message_number]]]

\* ChatRepo::unmute_player
unmute_player(req_player_id, unmute_message_number, repo) ==
  LET attribution == sender_attribution(req_player_id, unmute_message_number, repo)
  IN IF attribution = None
     THEN [players |-> repo, ret |-> [err |-> "unknown sender"]]
     ELSE [players |-> [repo EXCEPT ![req_player_id].client.chat.muted =
                          @ \ {Unwrap(attribution).sender_ip}],
           ret |-> [ok |-> [kind |-> "Unmuted", number |-> unmute_message_number]]]

\* PlayerClientData::moderator, ::admin and ::nick_name read the session.
Moderator(client) == client.session.moderator
Admin(client) == client.session.admin
NickName(client) == client.session.nick_name

\* The limit of report on the reports of a client, and a variant without.
TooManyReportsNever(reported) == FALSE
TooManyReports(reported) == Cardinality(reported) >= MaxReported

\* Whether reported.insert(ip) finds the address present, and a variant
\* that never does.
AlreadyReportedNever(ip, reported) == FALSE
AlreadyReported(ip, reported) == ip \in reported

\* The override of the own-address check of report, for admins in a debug
\* build, and a variant for admins in every build.
OverridesOwnIpInEveryBuild(client, debug) == Admin(client)
OverridesOwnIp(client, debug) == Admin(client) /\ debug

\* The flag alive_duration of report: the requester has been alive for
\* under ReportAliveSeconds, or never; and a variant that is set from
\* ReportAliveSeconds on.
AliveDurationFrom(duration) ==
  IF duration = None THEN TRUE ELSE Unwrap(duration) >= ReportAliveSeconds
AliveDurationUnder(duration) ==
  IF duration = None THEN TRUE ELSE Unwrap(duration) < ReportAliveSeconds

\* ChatRepo::report.  `debug` is cfg!(debug_assertions); `do_requests` are
\* the requests given to the PlasmaActlet so far.
report(req_player_id, restrict_message_number, repo, metrics, do_requests, debug) ==
  LET unchanged(e) == [players |-> repo, metric_repo |-> metrics,
                       plasma |-> do_requests, ret |-> [err |-> e]]
      attribution == sender_attribution(req_player_id, restrict_message_number, repo)
  IN IF attribution = None THEN unchanged("unknown sender")
     ELSE
       LET report_attribution == Unwrap(attribution)
           req_player == repo[req_player_id]
           alive_duration == AliveDurationUnder(req_player.alive_duration)
           req_client == req_player.client
           inserted == [repo EXCEPT ![req_player_id].client.reported =
                          @ \cup {report_attribution.sender_ip}]
           accepted(after) ==
             [players |-> after,
              metric_repo |-> [metrics EXCEPT !.abuse_reports = @ + 1],
              plasma |-> IF req_client.session.visitor_id # None
                         THEN Append(do_requests,
                                [kind |-> "ModerateAbuse", alias |-> req_player.alias,
                                 chat_id |-> report_attribution.chat_id,
                                 visitor_id |-> Unwrap(req_client.session.visitor_id)])
                         ELSE do_requests,
              ret |-> [ok |-> [kind |-> "PlayerRestricted",
                               message_number |-> restrict_message_number]]]
       IN IF req_player.inner # "Client" THEN unchanged("not a real player")
          ELSE IF /\ req_client.ip_address = report_attribution.sender_ip
                  /\ ~OverridesOwnIp(req_client, debug)
          THEN unchanged("cannot restrict own IP")
          ELSE IF ~Moderator(req_client)
          THEN IF alive_duration THEN unchanged("report requirements unmet")
               ELSE IF TooManyReports(req_client.reported)
               THEN unchanged("too many reports")
               ELSE IF AlreadyReported(report_attribution.sender_ip, req_client.reported)
               THEN unchanged("already reported")
               ELSE accepted(inserted)
          ELSE accepted(repo)

\* ------------------------------------------------------------ chat messages
\* A chat text is what splitting it gives: whether it starts with '/', and
\* its words; a word is letters, or decimal digits with a suffix.
Word(text) == [kind |-> "word", text |-> text]
\* A decimal literal is two 16-bit limbs, value = hi * 2^16 + lo; a literal
\* too large for u32 has hi above U16Max.
Limb == U16Max + 1
U32(hi, lo) == [hi |-> hi, lo |-> lo]
U32Of(n) == U32(n \div Limb, n % Limb)
Number(value, suffix) == [kind |-> "number", value |-> value, suffix |-> suffix]
\* The most hours that are a u32 of minutes: u32::MAX / 60.
MaxWholeHours == 71582788
\* str::parse::<u32> and u32::checked_mul(60)
ParseU32(value) == IF value.hi <= U16Max THEN Some(value) ELSE None
\* A variant of the multiplication that saturates.
SaturatingMul60(n) ==
  LET lo == n.lo * 60
      hi == n.hi * 60 + (lo \div Limb)
  IN IF hi <= U16Max THEN Some(U32(hi, lo % Limb)) ELSE Some(U32(U16Max, U16Max))
CheckedMul60(n) ==
  LET lo == n.lo * 60
      hi == n.hi * 60 + (lo \div Limb)
  IN IF hi <= U16Max THEN Some(U32(hi, lo % Limb)) ELSE None
Plain(words) == [slash |-> FALSE, words |-> words]
Command(words) == [slash |-> TRUE, words |-> words]

\* A variant of set_safe_mode that any client may use.
set_safe_mode_for_anyone(minutes, req_player, realm_id, do_requests) ==
  IF req_player.inner # "Client"
  THEN [plasma |-> do_requests, ret |-> [err |-> "not a real player"]]
  ELSE [plasma |-> IF req_player.client.session.visitor_id # None
                   THEN Append(do_requests,
                          [kind |-> "ModerateChat", alias |-> req_player.alias,
                           arena_id |-> ArenaIdOf(realm_id, 0),
                           visitor_id |-> Unwrap(req_player.client.session.visitor_id),
                           safe_mode |-> Some(minutes), slow_mode |-> None])
                   ELSE do_requests,
        ret |-> [ok |-> [kind |-> "SafeModeSet", minutes |-> minutes]]]

\* ChatRepo::set_safe_mode and ::set_slow_mode
set_safe_mode(minutes, req_player, realm_id, do_requests) ==
  IF req_player.inner # "Client"
  THEN [plasma |-> do_requests, ret |-> [err |-> "not a real player"]]
  ELSE IF ~Moderator(req_player.client)
  THEN [plasma |-> do_requests, ret |-> [err |-> "permission denied"]]
  ELSE [plasma |-> IF req_player.client.session.visitor_id # None
                   THEN Append(do_requests,
                          [kind |-> "ModerateChat", alias |-> req_player.alias,
                           arena_id |-> ArenaIdOf(realm_id, 0),
                           visitor_id |-> Unwrap(req_player.client.session.visitor_id),
                           safe_mode |-> Some(minutes), slow_mode |-> None])
                   ELSE do_requests,
        ret |-> [ok |-> [kind |-> "SafeModeSet", minutes |-> minutes]]]

\* A variant of set_slow_mode that asks the relay for safe mode.
set_slow_mode_as_safe(minutes, req_player, realm_id, do_requests) ==
  IF req_player.inner # "Client"
  THEN [plasma |-> do_requests, ret |-> [err |-> "not a real player"]]
  ELSE IF ~Moderator(req_player.client)
  THEN [plasma |-> do_requests, ret |-> [err |-> "permission denied"]]
  ELSE [plasma |-> IF req_player.client.session.visitor_id # None
                   THEN Append(do_requests,
                          [kind |-> "ModerateChat", alias |-> req_player.alias,
                           arena_id |-> ArenaIdOf(realm_id, 0),
                           visitor_id |-> Unwrap(req_player.client.session.visitor_id),
                           safe_mode |-> Some(minutes), slow_mode |-> None])
                   ELSE do_requests,
        ret |-> [ok |-> [kind |-> "SlowModeSet", minutes |-> minutes]]]

set_slow_mode(minutes, req_player, realm_id, do_requests) ==
  IF req_player.inner # "Client"
  THEN [plasma |-> do_requests, ret |-> [err |-> "not a real player"]]
  ELSE IF ~Moderator(req_player.client)
  THEN [plasma |-> do_requests, ret |-> [err |-> "permission denied"]]
  ELSE [plasma |-> IF req_player.client.session.visitor_id # None
                   THEN Append(do_requests,
                          [kind |-> "ModerateChat", alias |-> req_player.alias,
                           arena_id |-> ArenaIdOf(realm_id, 0),
                           visitor_id |-> Unwrap(req_player.client.session.visitor_id),
                           safe_mode |-> None, slow_mode |-> Some(minutes)])
                   ELSE do_requests,
        ret |-> [ok |-> [kind |-> "SlowModeSet", minutes |-> minutes]]]

\* A variant of parse_minutes that reads hours as minutes.
parse_minutes_hours_as_minutes(arg) ==
  IF arg.kind = "word"
  THEN IF arg.text \in {"none", "off"} THEN Some(U32Of(0)) ELSE None
  ELSE IF ParseU32(arg.value) = None THEN None
  ELSE IF arg.suffix \in {"", "m", "h"} THEN Some(arg.value)
  ELSE None

\* parse_minutes of try_execute_command
parse_minutes(arg) ==
  IF arg.kind = "word"
  THEN IF arg.text \in {"none", "off"} THEN Some(U32Of(0)) ELSE None
  ELSE IF ParseU32(arg.value) = None THEN None
  ELSE IF arg.suffix \in {"", "m"} THEN Some(arg.value)
  ELSE IF arg.suffix = "h" THEN CheckedMul60(arg.value)
  ELSE None

\* The until! macro of try_execute_command, for set_slow_mode (slow) or
\* set_safe_mode.
until(slow, words, player, req_realm_id, do_requests) ==
  IF Len(words) < 2
  THEN [reply |-> "missing number of minutes", plasma |-> do_requests]
  ELSE IF parse_minutes(words[2]) = None
  THEN [reply |-> "failed to parse argument as minutes", plasma |-> do_requests]
  ELSE LET minutes == Unwrap(parse_minutes(words[2]))
           out == IF slow THEN set_slow_mode(minutes, player, req_realm_id, do_requests)
                  ELSE set_safe_mode(minutes, player, req_realm_id, do_requests)
       IN [reply |-> IF "ok" \in DOMAIN out.ret THEN "done" ELSE out.ret.err,
           plasma |-> out.plasma]

\* The "bots" and "bot_aggression" arms of try_execute_command.
\* A variant of the "bots" arm that clamps a count to the ceiling.
BotsCommandClamping(words, player, bots_count, engine, debug) ==
  IF player.inner = "Client" /\ (debug \/ Admin(player.client))
  THEN IF Len(words) >= 2
       THEN LET count == words[2]
                hard_max == IF debug THEN HardMaxBotsDebug ELSE HardMaxBots
            IN IF count.kind = "number" /\ count.suffix = "" /\ count.value.hi = 0
               THEN [reply |-> "OK",
                     settings |-> [engine EXCEPT
                                     !.bots = Some(IF count.value.lo <= hard_max
                                                   THEN count.value.lo ELSE hard_max)]]
               ELSE IF count = Word("default")
               THEN [reply |-> "OK", settings |-> [engine EXCEPT !.bots = None]]
               ELSE [reply |-> "error", settings |-> engine]
       ELSE [reply |-> ToString(bots_count), settings |-> engine]
  ELSE [reply |-> "permission denied", settings |-> engine]

BotsCommand(words, player, bots_count, engine, debug) ==
  IF player.inner = "Client" /\ (debug \/ Admin(player.client))
  THEN IF Len(words) >= 2
       THEN LET count == words[2]
            IN IF /\ count.kind = "number" /\ count.suffix = ""
                  /\ count.value.hi = 0
                  /\ count.value.lo <= (IF debug THEN HardMaxBotsDebug ELSE HardMaxBots)
               THEN [reply |-> "OK",
                     settings |-> [engine EXCEPT !.bots = Some(count.value.lo)]]
               ELSE IF count = Word("default")
               THEN [reply |-> "OK", settings |-> [engine EXCEPT !.bots = None]]
               ELSE [reply |-> "error", settings |-> engine]
       ELSE [reply |-> ToString(bots_count), settings |-> engine]
  ELSE [reply |-> "permission denied", settings |-> engine]

BotAggressionCommand(words, player, engine, debug) ==
  IF player.inner = "Client" /\ (debug \/ Admin(player.client))
  THEN IF Len(words) >= 2
       THEN LET aggression == words[2]
            IN IF /\ aggression.kind = "number" /\ aggression.suffix = ""
                  /\ aggression.value.hi = 0
                  /\ aggression.value.lo <= MaxBotAggression
               THEN [reply |-> "OK",
                     settings |-> [engine EXCEPT
                                     !.bot_aggression = Some(aggression.value.lo)]]
               ELSE IF aggression = Word("default")
               THEN [reply |-> "OK", settings |-> [engine EXCEPT !.bot_aggression = None]]
               ELSE [reply |-> "error", settings |-> engine]
       ELSE [reply |-> IF engine.bot_aggression = None THEN "default"
                       ELSE ToString(Unwrap(engine.bot_aggression)),
             settings |-> engine]
  ELSE [reply |-> "permission denied", settings |-> engine]

\* ChatRepo::try_execute_command: the reply (None when the message is no
\* command), the settings and the PlasmaActlet requests it leaves.  The
\* game defines no chat command of its own.
try_execute_command(req_realm_id, message, player, bots_count, engine, do_requests, debug) ==
  IF ~message.slash \/ message.words = <<>>
  THEN [reply |-> None, settings |-> engine, plasma |-> do_requests]
  ELSE LET first == message.words[1]
       IN IF first = Word("slow") \/ first = Word("safe")
          THEN LET out == until(first = Word("slow"), message.words, player,
                                req_realm_id, do_requests)
               IN [reply |-> Some(out.reply), settings |-> engine, plasma |-> out.plasma]
          ELSE IF first = Word("bots")
          THEN LET out == BotsCommand(message.words, player, bots_count, engine, debug)
               IN [reply |-> Some(out.reply), settings |-> out.settings,
                   plasma |-> do_requests]
          ELSE IF first = Word("bot_aggression")
          THEN LET out == BotAggressionCommand(message.words, player, engine, debug)
               IN [reply |-> Some(out.reply), settings |-> out.settings,
                   plasma |-> do_requests]
          ELSE [reply |-> Some("unrecognized command"), settings |-> engine,
                plasma |-> do_requests]

\* COMPLAINT_MESSAGES and some of COMPLAINT_PHRASES of send_chat, as words.
ComplaintMessages == { <<Word("lag")>> }
ComplaintPhrases == { <<Word("game"), Word("crashed")>>, <<Word("hacks")>>,
                      <<Word("laggy")>>, <<Word("not"), Word("fun")>> }

\* Whether the text contains a complaint phrase or is a complaint message.
Complains(message) ==
  \/ ~message.slash /\ message.words \in ComplaintMessages
  \/ \E phrase \in ComplaintPhrases :
        \E i \in 1 .. Len(message.words) :
          /\ i + Len(phrase) - 1 <= Len(message.words)
          /\ SubSeq(message.words, i, i + Len(phrase) - 1) = phrase

\* A variant that trusts the wall clock.
NextTimestampWallClock(wall_clock, last_timestamp) == wall_clock

\* The timestamp send_chat assigns.
NextTimestamp(wall_clock, last_timestamp) == Max(wall_clock, last_timestamp + 1)

\* The authoritative reply send_chat puts in the sender's inbox.
\* A variant whose reply to a command is an ordinary message.
CommandReplyUnofficial(text, whisper) ==
  [authority |-> FALSE, authentic |-> TRUE, whisper |-> whisper,
   message |-> [kind |-> "Raw", message |-> text]]

CommandReply(text, whisper) ==
  [authority |-> TRUE, authentic |-> TRUE, whisper |-> whisper,
   message |-> [kind |-> "Raw", message |-> text]]

\* The SendChat request of send_chat.
SendChatRequest(req_arena_id, req_player_id, req_player, message, timestamp, recipient) ==
  [kind |-> "SendChat", admin |-> FALSE, alias |-> req_player.alias,
   authentic |-> NickName(req_player.client) = Some(req_player.alias),
   ip_address |-> req_player.client.ip_address, message |-> message,
   arena_id |-> req_arena_id, team_name |-> None,
   player_id |-> Some(req_player_id), timestamp |-> timestamp,
   visitor_id |-> req_player.client.session.visitor_id, recipient |-> recipient]

\* ChatRepo::send_chat.  Returns what it leaves of the chat repo, the player
\* repo, the metrics, the settings and the PlasmaActlet requests, its Result
\* and the request it hands to send_to_plasma (no_plasma builds only).
send_chat(chat, req_arena_id, req_player_id, message, whisper, repo, metrics, engine, bots_count, do_requests, wall_clock, no_plasma, debug) ==
  LET leave(c, r, m, e, d, ret, request) ==
        [chat_repo |-> c, players |-> r, metric_repo |-> m, settings |-> e,
         plasma |-> d, ret |-> ret, request |-> request]
  IN IF req_player_id \notin DOMAIN repo
     THEN leave(chat, repo, metrics, engine, do_requests,
                [err |-> "nonexistent player"], None)
     ELSE IF ~RegulatorActive(repo[req_player_id].regulator)
     THEN leave(chat, repo, metrics, engine, do_requests, [err |-> "inactive"], None)
     ELSE
       LET is_client == repo[req_player_id].inner = "Client"
           quested == IF is_client
                      THEN [repo EXCEPT ![req_player_id].client.quests =
                              Append(@, [kind |-> "Chat", whisper |-> whisper])]
                      ELSE repo
           counted == IF is_client THEN [metrics EXCEPT !.chats = @ + 1] ELSE metrics
           req_player == quested[req_player_id]
           team == req_player.team_id
           command == try_execute_command(req_arena_id.realm_id, message, req_player,
                                          bots_count, engine, do_requests, debug)
           timestamp == NextTimestamp(wall_clock, chat.last_timestamp)
           stamped == [chat EXCEPT !.last_timestamp = timestamp]
       IN IF command.reply # None
          THEN IF is_client
               THEN leave(stamped,
                          [quested EXCEPT ![req_player_id].client.chat =
                             ChatReceive(@, CommandReply(Unwrap(command.reply), whisper),
                                         None)],
                          counted, command.settings,
                          Append(command.plasma,
                                 SendChatRequest(req_arena_id, req_player_id, req_player,
                                                 message, timestamp, "None")),
                          [ok |-> [kind |-> "Sent"]], None)
               ELSE leave(chat, quested, counted, command.settings, command.plasma,
                          [ok |-> [kind |-> "Sent"]], None)
          ELSE IF whisper /\ team = None
          THEN leave(chat, quested, counted, engine, do_requests,
                     [err |-> "no one to whisper to"], None)
          ELSE IF ~is_client
          THEN leave(chat, quested, counted, engine, do_requests,
                     [err |-> "not a client"], None)
          ELSE
            LET complained ==
                  IF ~req_player.client.metrics.complained /\ Complains(message)
                  THEN [quested EXCEPT ![req_player_id].client.metrics.complained = TRUE]
                  ELSE quested
                request == SendChatRequest(req_arena_id, req_player_id, req_player,
                                           message, timestamp,
                                           IF whisper THEN "TeamOf" ELSE "Broadcast")
            IN IF no_plasma
               THEN leave(stamped, complained, counted, engine, do_requests,
                          [ok |-> [kind |-> "Sent"]], Some(request))
               ELSE leave(stamped, complained, counted, engine,
                          Append(do_requests, request),
                          [ok |-> [kind |-> "Sent"]], None)

\* ----------------------------------------------------------- send_player
\* ArenaQuery
Specific(arena_id) == [kind |-> "Specific", arena_id |-> arena_id]
AnyInstance == [kind |-> "AnyInstance"]

\* Variant of the match below with the Pending and Redirected arms merged
\* into the Limbo arm.
ExtractObserverActiveLenient(status) ==
  CASE status.kind = "Connected" ->
         [panic |-> FALSE, observer |-> Some(status.observer), active |-> status.active]
    [] status.kind \in {"Limbo", "Pending", "Redirected"} ->
         [panic |-> FALSE, observer |-> None, active |-> None]
    [] status.kind = "LeavingLimbo" ->
         [panic |-> TRUE, observer |-> None, active |-> None]

\* The match on the replaced ClientStatus in send_player_impl.
ExtractObserverActive(status) ==
  CASE status.kind = "Connected" ->
         [panic |-> FALSE, observer |-> Some(status.observer), active |-> status.active]
    [] status.kind = "Limbo" ->
         [panic |-> FALSE, observer |-> None, active |-> None]
    [] status.kind \in {"Pending", "Redirected", "LeavingLimbo"} ->
         [panic |-> TRUE, observer |-> None, active |-> None]

\* Variant of the status below that drops the observer and does not ask
\* for the connection to be closed.
RedirectedStatusNoObserver(t, limbo, server_id, observer, active) ==
  Redirected(t + Max(limbo, 1), server_id, None, active, FALSE)

\* The Redirected status send_player_impl sets.
RedirectedStatus(t, limbo, server_id, observer, active) ==
  Redirected(t + Max(limbo, 1), server_id, observer, active, TRUE)

\* Whether the destination is in another realm (an unspecific query counts
\* as another realm).
RealmDiffers(arena_query, local_arena_id) ==
  IF arena_query.kind = "Specific"
  THEN arena_query.arena_id.realm_id # local_arena_id.realm_id
  ELSE TRUE

\* Variant of the chat reset below that resets the whole chat data.
ChatAfterRedirectDefault(chat, arena_query, local_arena_id) ==
  IF RealmDiffers(arena_query, local_arena_id)
  THEN DefaultClientChatData
  ELSE chat

\* The chat data send_player_impl leaves in the client.
ChatAfterRedirect(chat, arena_query, local_arena_id) ==
  IF RealmDiffers(arena_query, local_arena_id)
  THEN [chat EXCEPT !.inbox = <<>>, !.join_announced = None]
  ELSE chat

\* RedirectedPlayer, built from the client as send_player_impl leaves it.
RedirectedPlayer(player_id, client) ==
  [old_player_id |-> player_id, old_token |-> client.token,
   chat |-> client.chat, metrics |-> client.metrics,
   session |-> client.session, ip_address |-> client.ip_address]

\* ArenaContext::send_player_impl on the PlayerRepo `repo`.  Returns the
\* repo as the call leaves it, whether it panicked and the returned payload.
send_player_impl(repo, local_arena_id, t, limbo, player_id, server_id, arena_query, game) ==
  IF player_id \notin DOMAIN repo \/ repo[player_id].inner # "Client"
  THEN [panic |-> TRUE, players |-> repo, ret |-> None]
  ELSE
    LET client == repo[player_id].client
        ex == ExtractObserverActive(client.status)
        replaced == [client EXCEPT !.status = Pending(t)]
    IN IF ex.panic
       THEN [panic |-> TRUE,
             players |-> [repo EXCEPT ![player_id].client = replaced],
             ret |-> None]
       ELSE
         LET sent ==
               [client EXCEPT
                  !.status = RedirectedStatus(t, limbo, server_id, ex.observer, ex.active),
                  !.quests = Append(@, [kind |-> "Arena", server_id |-> server_id,
                                        arena_id |-> arena_query, game |-> game]),
                  !.chat = ChatAfterRedirect(@, arena_query, local_arena_id)]
         IN [panic |-> FALSE,
             players |-> [repo EXCEPT ![player_id].client = sent],
             ret |-> Some(RedirectedPlayer(player_id, sent))]

\* Variant of send_player without the check of the regulator.
send_player_unchecked(repo, local_arena_id, t, limbo, player_id, server_id, arena_id) ==
  IF player_id \notin DOMAIN repo
  THEN [panic |-> TRUE, players |-> repo, ret |-> None]
  ELSE send_player_impl(
         [repo EXCEPT ![player_id].regulator = RegulatorLeaveNow(@)],
         local_arena_id, t, limbo, player_id, server_id, Specific(arena_id), TRUE)

\* Variant of send_player that leaves the regulator as it is.
send_player_staying(repo, local_arena_id, t, limbo, player_id, server_id, arena_id) ==
  IF player_id \notin DOMAIN repo
  THEN [panic |-> TRUE, players |-> repo, ret |-> None]
  ELSE IF ~RegulatorActive(repo[player_id].regulator)
  THEN [panic |-> TRUE, players |-> repo, ret |-> None]
  ELSE send_player_impl(repo, local_arena_id, t, limbo, player_id, server_id,
                        Specific(arena_id), TRUE)

\* ArenaContext::send_player
send_player(repo, local_arena_id, t, limbo, player_id, server_id, arena_id) ==
  IF player_id \notin DOMAIN repo
  THEN [panic |-> TRUE, players |-> repo, ret |-> None]
  ELSE IF ~RegulatorActive(repo[player_id].regulator)
  THEN [panic |-> TRUE, players |-> repo, ret |-> None]
  ELSE send_player_impl(
         [repo EXCEPT ![player_id].regulator = RegulatorLeaveNow(@)],
         local_arena_id, t, limbo, player_id, server_id, Specific(arena_id), TRUE)

\* -------------------------------------------------------- relay dispatcher
\* rustrict's CensorStr::censor on the chat texts of the model.
Censor(message) ==
  [message EXCEPT !.words =
     [i \in DOMAIN @ |-> IF @[i] = [kind |-> "word", text |-> "darn"]
                         THEN [kind |-> "word", text |-> "****"] ELSE @[i]]]

\* SendPlasmaRequest::send.  `lcl` and `ws` are the local recipient's
\* mailbox and the relay channel of the sending server; has_socket says
\* whether web_socket is Some; capacity is the channel's bound.
\* Variant of PlasmaSend: the fast path is taken when the local server is
\* one of the recipients.
PlasmaSendAnyLocal(no_plasma, has_socket, capacity, local_server_id, lcl, ws, request) ==
  IF no_plasma
  THEN IF request.kind = "SendChat"
       THEN [local |-> Append(lcl,
               [kind |-> "Chat", admin |-> request.admin, alias |-> request.alias,
                authentic |-> request.authentic,
                chat_id |-> [arena_id |-> request.arena_id,
                             server_id |-> local_server_id,
                             message_id |-> request.timestamp],
                ip_address |-> request.ip_address,
                message |-> Censor(request.message),
                player_id |-> request.player_id, recipient |-> request.recipient,
                team_name |-> request.team_name, visitor_id |-> request.visitor_id]),
             web_socket |-> ws]
       ELSE [local |-> lcl, web_socket |-> ws]
  ELSE IF request.kind = "SendServerMessage" /\ local_server_id \in request.recipients
  THEN [local |-> Append(lcl, [kind |-> "Parley", sender |-> local_server_id,
                               message |-> request.message]),
        web_socket |-> ws]
  ELSE IF has_socket /\ Len(ws) < capacity
  THEN [local |-> lcl, web_socket |-> Append(ws, request)]
  ELSE [local |-> lcl, web_socket |-> ws]

\* Variant of PlasmaSend: a full channel makes room by giving up its oldest
\* request.
PlasmaSendEvicting(no_plasma, has_socket, capacity, local_server_id, lcl, ws, request) ==
  IF no_plasma
  THEN IF request.kind = "SendChat"
       THEN [local |-> Append(lcl,
               [kind |-> "Chat", admin |-> request.admin, alias |-> request.alias,
                authentic |-> request.authentic,
                chat_id |-> [arena_id |-> request.arena_id,
                             server_id |-> local_server_id,
                             message_id |-> request.timestamp],
                ip_address |-> request.ip_address,
                message |-> Censor(request.message),
                player_id |-> request.player_id, recipient |-> request.recipient,
                team_name |-> request.team_name, visitor_id |-> request.visitor_id]),
             web_socket |-> ws]
       ELSE [local |-> lcl, web_socket |-> ws]
  ELSE IF request.kind = "SendServerMessage" /\ request.recipients = {local_server_id}
  THEN [local |-> Append(lcl, [kind |-> "Parley", sender |-> local_server_id,
                               message |-> request.message]),
        web_socket |-> ws]
  ELSE IF has_socket /\ Len(ws) < capacity
  THEN [local |-> lcl, web_socket |-> Append(ws, request)]
  ELSE IF has_socket
  THEN [local |-> lcl, web_socket |-> Append(Tail(ws), request)]
  ELSE [local |-> lcl, web_socket |-> ws]

\* Variant of PlasmaSend: loopback mode converts chat messages and leaves
\* every other request to the routing of the relayed mode.
PlasmaSendLoopbackRemote(no_plasma, has_socket, capacity, local_server_id, lcl, ws, request) ==
  IF no_plasma /\ request.kind = "SendChat"
  THEN [local |-> Append(lcl,
          [kind |-> "Chat", admin |-> request.admin, alias |-> request.alias,
           authentic |-> request.authentic,
           chat_id |-> [arena_id |-> request.arena_id,
                        server_id |-> local_server_id,
                        message_id |-> request.timestamp],
           ip_address |-> request.ip_address,
           message |-> Censor(request.message),
           player_id |-> request.player_id, recipient |-> request.recipient,
           team_name |-> request.team_name, visitor_id |-> request.visitor_id]),
        web_socket |-> ws]
  ELSE IF request.kind = "SendServerMessage" /\ request.recipients = {local_server_id}
  THEN [local |-> Append(lcl, [kind |-> "Parley", sender |-> local_server_id,
                               message |-> request.message]),
        web_socket |-> ws]
  ELSE IF has_socket /\ Len(ws) < capacity
  THEN [local |-> lcl, web_socket |-> Append(ws, request)]
  ELSE [local |-> lcl, web_socket |-> ws]

PlasmaSend(no_plasma, has_socket, capacity, local_server_id, lcl, ws, request) ==
  IF no_plasma
  THEN IF request.kind = "SendChat"
       THEN [local |-> Append(lcl,
               [kind |-> "Chat", admin |-> request.admin, alias |-> request.alias,
                authentic |-> request.authentic,
                chat_id |-> [arena_id |-> request.arena_id,
                             server_id |-> local_server_id,
                             message_id |-> request.timestamp],
                ip_address |-> request.ip_address,
                message |-> Censor(request.message),
                player_id |-> request.player_id, recipient |-> request.recipient,
                team_name |-> request.team_name, visitor_id |-> request.visitor_id]),
             web_socket |-> ws]
       ELSE [local |-> lcl, web_socket |-> ws]
  ELSE IF request.kind = "SendServerMessage" /\ request.recipients = {local_server_id}
  THEN [local |-> Append(lcl, [kind |-> "Parley", sender |-> local_server_id,
                               message |-> request.message]),
        web_socket |-> ws]
  ELSE IF has_socket /\ Len(ws) < capacity
  THEN [local |-> lcl, web_socket |-> Append(ws, request)]
  ELSE [local |-> lcl, web_socket |-> ws]

\* -------------------------------------------------------- receive_player
\* PlayerId::nth_client
nth_client(i) == IF i < NumClientIds THEN Some(i) ELSE None

\* The probe loop of receive_player: the first nth_client(i), i = 0, 1, ...,
\* the repo does not contain; None when nth_client runs out (the expect
\* panics).
RECURSIVE ProbeFrom(_, _)
ProbeFrom(i, repo) ==
  IF nth_client(i) = None THEN None
  ELSE IF Unwrap(nth_client(i)) \notin DOMAIN repo THEN nth_client(i)
  ELSE ProbeFrom(i + 1, repo)

\* Variants of the probe below: one that starts at the second id, one
\* that wraps around to the first id when every id is taken.
FreePlayerIdFromOne(repo) == ProbeFrom(1, repo)
FreePlayerIdWrapping(repo) ==
  IF ProbeFrom(0, repo) = None THEN nth_client(0) ELSE ProbeFrom(0, repo)

\* The id the probe loop of receive_player ends with.
FreePlayerId(repo) == ProbeFrom(0, repo)

\* Variant of was_alive below that ignores play_stopped.
WasAliveStartedOnly(metrics) == metrics.play_started # None

\* was_alive as receive_player computes it from the payload's metrics.
WasAlive(metrics) == metrics.play_started # None /\ metrics.play_stopped = None

\* The Limbo status receive_player sets.
LimboStatus(t) == Limbo(t + 10)

\* Variant of the acknowledgment below with the two tokens exchanged.
AckRequestTokensSwapped(server_id, arena_id, redirected_player, local_arena_id, player_id, token) ==
  [kind |-> "SendServerMessage",
   recipients |-> {server_id},
   message |-> [kind |-> "Ack",
                old_arena_id |-> arena_id,
                old_player_id |-> redirected_player.old_player_id,
                old_token |-> token,
                arena_id |-> local_arena_id,
                player_id |-> player_id,
                token |-> redirected_player.old_token]]

\* The acknowledgment receive_player hands to the dispatcher.
AckRequest(server_id, arena_id, redirected_player, local_arena_id, player_id, token) ==
  [kind |-> "SendServerMessage",
   recipients |-> {server_id},
   message |-> [kind |-> "Ack",
                old_arena_id |-> arena_id,
                old_player_id |-> redirected_player.old_player_id,
                old_token |-> redirected_player.old_token,
                arena_id |-> local_arena_id,
                player_id |-> player_id,
                token |-> token]]

\* Variant of the player below that keeps the fresh default session.
ReconstitutedPlayerFreshSession(redirected_player, token, t) ==
  LET new == PlayerClientDataNew(redirected_player.chat, redirected_player.metrics,
                                 redirected_player.ip_address, token, t)
      client == [new EXCEPT !.status = LimboStatus(t)]
      player == PlayerNew(client)
  IN [player EXCEPT !.regulator = RegulatorJoin(@).regulator,
                    !.was_alive = WasAlive(redirected_player.metrics),
                    !.was_ever_alive = WasAlive(redirected_player.metrics)]

\* The Player receive_player inserts.
ReconstitutedPlayer(redirected_player, token, t) ==
  LET new == PlayerClientDataNew(redirected_player.chat, redirected_player.metrics,
                                 redirected_player.ip_address, token, t)
      client == [new EXCEPT !.session = redirected_player.session,
                            !.status = LimboStatus(t)]
      player == PlayerNew(client)
  IN [player EXCEPT !.regulator = RegulatorJoin(@).regulator,
                    !.was_alive = WasAlive(redirected_player.metrics),
                    !.was_ever_alive = WasAlive(redirected_player.metrics)]

\* Variant of receive_player that keeps the payload's old player id.
receive_player_keeping_id(repo, local_arena_id, t, server_id, arena_id, redirected_player, token) ==
  LET player_id == redirected_player.old_player_id
  IN [panic |-> FALSE,
      players |-> Insert(repo, player_id,
                         ReconstitutedPlayer(redirected_player, token, t)),
      ret |-> Some(player_id),
      request |-> Some(AckRequest(server_id, arena_id, redirected_player,
                                  local_arena_id, player_id, token))]

\* ArenaContext::receive_player on the PlayerRepo `repo`; `token` is the
\* random token PlayerClientData::new draws.  Returns the repo as the call
\* leaves it, whether it panicked, the returned id and the request handed
\* to the dispatcher (None when none was).
receive_player(repo, local_arena_id, t, server_id, arena_id, redirected_player, token) ==
  LET free == FreePlayerId(repo)
  IN IF free = None
     THEN [panic |-> TRUE, players |-> repo, ret |-> None, request |-> None]
     ELSE LET player_id == Unwrap(free)
          IN [panic |-> FALSE,
              players |-> Insert(repo, player_id,
                                 ReconstitutedPlayer(redirected_player, token, t)),
              ret |-> Some(player_id),
              request |-> Some(AckRequest(server_id, arena_id, redirected_player,
                                          local_arena_id, player_id, token))]

\* ------------------------------------------------------------ state machine
NoCall ==
  [op |-> "none", arena |-> "A", player_id |-> None, args |-> None,
   panic |-> FALSE, ret |-> None, pre |-> None, occupied |-> {}, at |-> 0]

\* The record of a call on player p of arena a (p = None: on the arena),
\* taken in the state the call starts in: pre is the player as the call
\* finds it, occupied the ids the arena holds, at the time of the call.
Call(op, a, p, args, panic, ret) ==
  [op |-> op, arena |-> a, player_id |-> p, args |-> args,
   panic |-> panic, ret |-> ret,
   pre |-> IF p # None /\ Unwrap(p) \in DOMAIN players[a]
           THEN Some(players[a][Unwrap(p)]) ELSE None,
   occupied |-> DOMAIN players[a], at |-> now]

\* The client that occupies id i of arena a when the model starts.  Its
\* chat was back-filled by initialize_client at time 0.  A "connected"
\* client has attached an endpoint and been admitted by the regulator; a
\* "fresh" one has done neither; an "arrived" one is as receive_player left
\* it at time 0.
InitialPlayer(dep, a, i, how) ==
  LET profile == CHOOSE c \in ClientProfiles :
                   /\ (i % 3 = 0) => c.metrics.play_started = None
                   /\ (i % 3 = 1) => c.metrics.play_started # None /\ c.metrics.play_stopped = None
                   /\ (i % 3 = 2) => c.metrics.play_stopped # None
      chat == initialize_client(DefaultChatRepo, dep.topology[a].local_server_id,
                                dep.topology[a].local_arena_id)
      new == PlayerClientDataNew(chat, profile.metrics, profile.ip_address,
                                 IF i % 2 = 0 THEN "t1" ELSE "t2", 0)
      client == [new EXCEPT !.session = profile.session,
                            !.status = CASE how = "fresh" -> @
                                         [] how = "arrived" -> LimboStatus(0)
                                         [] how = "connected" /\ i % 2 = 0 ->
                                              Connected("obs1", None)
                                         [] how = "connected" /\ i % 2 = 1 ->
                                              Connected("obs2", Some("playing"))]
  IN [PlayerNew(client) EXCEPT
        !.regulator = IF how = "connected" THEN "Active" ELSE "Joining",
        !.was_alive = IF how = "arrived" THEN WasAlive(profile.metrics) ELSE FALSE,
        !.was_ever_alive = IF how = "arrived" THEN WasAlive(profile.metrics) ELSE FALSE]

Init ==
  /\ deployment \in Deployments
  /\ now = 0
  /\ players = [a \in Arenas |->
                  [i \in DOMAIN deployment.population[a] |->
                     InitialPlayer(deployment, a, i, deployment.population[a][i])]]
  /\ chat_repo = [a \in Arenas |-> DefaultChatRepo]
  /\ requests = [a \in Arenas |-> <<>>]
  /\ local = [s \in Servers |-> <<>>]
  /\ web_socket = [s \in Servers |-> <<>>]
  /\ issued = <<>>
  /\ result = NoCall
  /\ metric_repo = [a \in Arenas |-> DefaultMetricRepo]
  /\ plasma = [a \in Arenas |-> <<>>]
  /\ unix_millis = 1
  /\ settings = [a \in Arenas |-> DefaultSettings]

\* A network endpoint attaches to a Pending or Limbo client.
Attach(a, p, attachment) ==
  /\ p \in DOMAIN players[a]
  /\ players[a][p].client.status.kind \in {"Pending", "Limbo"}
  /\ players' = [players EXCEPT ![a][p].client.status =
                   Connected(attachment.observer, attachment.active)]
  /\ result' = NoCall
  /\ UNCHANGED <<metric_repo, plasma, unix_millis, settings, deployment, now, chat_repo, requests, local, web_socket, issued>>

\* The regulator admits a joining player.
RegulatorTick(a, p) ==
  /\ p \in DOMAIN players[a]
  /\ players[a][p].regulator = "Joining"
  /\ players' = [players EXCEPT ![a][p].regulator = "Active"]
  /\ result' = NoCall
  /\ UNCHANGED <<metric_repo, plasma, unix_millis, settings, deployment, now, chat_repo, requests, local, web_socket, issued>>

\* The wall clock advances.
AdvanceClock ==
  /\ now < MaxAdvances * ClockStep
  /\ now' = now + ClockStep
  /\ result' = NoCall
  /\ UNCHANGED <<metric_repo, plasma, unix_millis, settings, deployment, players, chat_repo, requests, local, web_socket, issued>>

\* Expiry sweep: a Limbo client nobody attached to starts leaving.
LimboExpire(a, p) ==
  /\ p \in DOMAIN players[a]
  /\ players[a][p].client.status.kind = "Limbo"
  /\ now >= players[a][p].client.status.expiry
  /\ players' = [players EXCEPT ![a][p].client.status = LeavingLimbo]
  /\ result' = NoCall
  /\ UNCHANGED <<metric_repo, plasma, unix_millis, settings, deployment, now, chat_repo, requests, local, web_socket, issued>>

\* Expiry sweep: a Redirected or Pending client past its expiry, or one
\* leaving limbo, is removed from the arena.
RemovePlayer(a, p) ==
  /\ p \in DOMAIN players[a]
  /\ LET status == players[a][p].client.status
     IN \/ status.kind = "LeavingLimbo"
        \/ status.kind \in {"Redirected", "Pending"} /\ now >= status.expiry
  /\ players' = [players EXCEPT ![a] = Remove(@, p)]
  /\ result' = NoCall
  /\ UNCHANGED <<metric_repo, plasma, unix_millis, settings, deployment, now, chat_repo, requests, local, web_socket, issued>>

\* The envelope a returned payload travels in.
Envelope(payload, from, to) ==
  [body |-> payload, from |-> from, to |-> to, deliveries |-> 0]

\* The repo a send call leaves, with the successful send_player calls of
\* the entry counted.
CountSend(out, p, counted) ==
  IF out.panic \/ ~counted THEN out.players
  ELSE [out.players EXCEPT ![p].sends = @ + 1]

\* The game calls send_player(p, server of d, arena id of d) on arena a.
SendPlayer(a, p, d) ==
  /\ p \in DOMAIN players[a]
  /\ LET out == send_player(players[a], topology(a).local_arena_id, now,
                            deployment.LIMBO, p, topology(d).local_server_id,
                            topology(d).local_arena_id)
     IN /\ out.panic \/ Len(issued) < MaxPayloads
        /\ players' = [players EXCEPT ![a] = CountSend(out, p, TRUE)]
        /\ issued' = IF out.panic THEN issued
                      ELSE Append(issued, Envelope(Unwrap(out.ret), a, d))
        /\ result' = Call("send_player", a, Some(p),
                          [server_id |-> topology(d).local_server_id,
                           arena_query |-> Specific(topology(d).local_arena_id)],
                          out.panic, out.ret)
  /\ UNCHANGED <<metric_repo, plasma, unix_millis, settings, deployment, now, chat_repo, requests, local, web_socket>>

\* The engine calls send_player_impl(p, server of d, query, false) on arena a.
SendPlayerImpl(a, p, d, arena_query) ==
  /\ p \in DOMAIN players[a]
  /\ LET out == send_player_impl(players[a], topology(a).local_arena_id, now,
                                 deployment.LIMBO, p, topology(d).local_server_id,
                                 arena_query, FALSE)
     IN /\ out.panic \/ Len(issued) < MaxPayloads
        /\ players' = [players EXCEPT ![a] = CountSend(out, p, FALSE)]
        /\ issued' = IF out.panic THEN issued
                      ELSE Append(issued, Envelope(Unwrap(out.ret), a, d))
        /\ result' = Call("send_player_impl", a, Some(p),
                          [server_id |-> topology(d).local_server_id,
                           arena_query |-> arena_query],
                          out.panic, out.ret)
  /\ UNCHANGED <<metric_repo, plasma, unix_millis, settings, deployment, now, chat_repo, requests, local, web_socket>>

\* The repo receive_player leaves, with the new player's payload recorded.
MarkOrigin(out, k) ==
  IF out.panic THEN out.players
  ELSE [out.players EXCEPT ![Unwrap(out.ret)].origin = Some(k)]

\* Delivery number n (0: the first, 1: a replay) of issued payload k to its
\* destination arena's receive_player.
Deliver(k, n, token) ==
  /\ k \in 1 .. Len(issued)
  /\ issued[k].deliveries = n
  /\ LET e == issued[k]
         a == e.to
         s == topology(a).local_server_id
         out == receive_player(players[a], topology(a).local_arena_id, now,
                               topology(e.from).local_server_id,
                               topology(e.from).local_arena_id, e.body, token)
         sent == IF out.request = None
                 THEN [local |-> local[s], web_socket |-> web_socket[s]]
                 ELSE PlasmaSend(deployment.no_plasma, deployment.web_socket,
                                 ChannelCapacity, s, local[s], web_socket[s],
                                 Unwrap(out.request))
     IN /\ players' = [players EXCEPT ![a] = MarkOrigin(out, k)]
        /\ requests' = IF out.request = None THEN requests
                        ELSE [requests EXCEPT ![a] = Append(@, Unwrap(out.request))]
        /\ local' = [local EXCEPT ![s] = sent.local]
        /\ web_socket' = [web_socket EXCEPT ![s] = sent.web_socket]
        /\ issued' = [issued EXCEPT ![k].deliveries = n + 1]
        /\ result' = Call("receive_player", a, None,
                          [server_id |-> topology(e.from).local_server_id,
                           arena_id |-> topology(e.from).local_arena_id,
                           payload |-> k, token |-> token],
                          out.panic, out.ret)
  /\ UNCHANGED <<metric_repo, plasma, unix_millis, settings, deployment, now, chat_repo>>

ReceivePlayer(k, token) == Deliver(k, 0, token)
ReplayPayload(k, token) == Deliver(k, 1, token)

Queries(d) == {Specific(topology(d).local_arena_id), AnyInstance}

Handoff ==
  \/ \E p \in ClientIds, attachment \in Attachments : Attach(Origin, p, attachment)
  \/ \E p \in ClientIds : RegulatorTick(Origin, p)
  \/ AdvanceClock
  \/ \E p \in ClientIds : LimboExpire(Origin, p)
  \/ \E p \in ClientIds : RemovePlayer(Origin, p)
  \/ \E p \in ClientIds : SendPlayer(Origin, p, Destination)
  \/ \E p \in ClientIds, q \in Queries(Destination) :
        SendPlayerImpl(Origin, p, Destination, q)
  \/ \E k \in 1 .. MaxPayloads, token \in FreshTokens : ReceivePlayer(k, token)

Next == Handoff

Spec == Init /\ [][Next]_vars

\* --------------------------------------------------------------- redelivery
\* The handoff with a transport that may deliver a payload a second time.
Redelivery ==
  \/ \E p \in ClientIds, attachment \in Attachments : Attach(Origin, p, attachment)
  \/ \E p \in ClientIds : RegulatorTick(Origin, p)
  \/ AdvanceClock
  \/ \E p \in ClientIds : SendPlayer(Origin, p, Destination)
  \/ \E k \in 1 .. MaxPayloads, token \in FreshTokens : ReceivePlayer(k, token)
  \/ \E k \in 1 .. MaxPayloads, token \in FreshTokens : ReplayPayload(k, token)

SpecReplay == Init /\ [][Redelivery]_vars

\* --------------------------------------------------------------------- chat
\* A chat message of another player reaches arena a and is broadcast.
ChatTexts == {"hello"}

ChatMessageDto(text) ==
  [authority |-> FALSE, authentic |-> FALSE, whisper |-> FALSE,
   message |-> [kind |-> "Raw", message |-> text]]

BroadcastMessage(a, text, sender_ip) ==
  /\ Len(chat_repo[a].recent) < MaxBroadcasts
  /\ LET attribution == Some([chat_id |-> [arena_id |-> topology(a).local_arena_id,
                                           server_id |-> topology(a).local_server_id,
                                           message_id |-> chat_repo[a].last_timestamp],
                              sender_ip |-> sender_ip])
         out == broadcast_message(chat_repo[a], players[a], ChatMessageDto(text),
                                  attribution, None, TRUE)
     IN /\ players' = [players EXCEPT ![a] = out.players]
        /\ chat_repo' = [chat_repo EXCEPT ![a] = out.chat_repo]
  /\ result' = NoCall
  /\ UNCHANGED <<metric_repo, plasma, unix_millis, settings, deployment, now, requests, local, web_socket, issued>>

\* Player p of arena a asks to mute the sender of message number n.
MutePlayer(a, p, n) ==
  /\ p \in DOMAIN players[a]
  /\ LET out == mute_player(p, n, players[a])
     IN /\ players' = [players EXCEPT ![a] = out.players]
        /\ result' = Call("mute_player", a, Some(p), [message_number |-> n],
                          FALSE, Some(out.ret))
  /\ UNCHANGED <<metric_repo, plasma, unix_millis, settings, deployment, now, chat_repo, requests, local, web_socket, issued>>

\* The join of player p of arena a is announced in its scene.
AnnounceJoin(a, p) ==
  /\ p \in DOMAIN players[a]
  /\ players[a][p].client.status.kind = "Connected"
  /\ players[a][p].client.chat.join_announced = None
  /\ players' = [players EXCEPT ![a][p].client.chat.join_announced =
                   Some(topology(a).local_arena_id.scene_id)]
  /\ result' = NoCall
  /\ UNCHANGED <<metric_repo, plasma, unix_millis, settings, deployment, now, chat_repo, requests, local, web_socket, issued>>

ChatHandoff ==
  \/ \E text \in ChatTexts, ip \in IpAddrs : BroadcastMessage(Origin, text, ip)
  \/ \E p \in ClientIds, n \in 1 .. (MaxBroadcasts + 1) : MutePlayer(Origin, p, n)
  \/ \E p \in ClientIds : AnnounceJoin(Origin, p)
  \/ \E p \in ClientIds, attachment \in Attachments : Attach(Origin, p, attachment)
  \/ \E p \in ClientIds : RegulatorTick(Origin, p)
  \/ \E p \in ClientIds : SendPlayer(Origin, p, Destination)
  \/ \E k \in 1 .. MaxPayloads, token \in FreshTokens : ReceivePlayer(k, token)

SpecChat == Init /\ [][ChatHandoff]_vars

\* --------------------------------------------------------------- moderation
\* Entry i of a recent-message history that chat has already filled; the
\* senders have three addresses in turn.
RingEntry(dep, a, i) ==
  [message |-> ChatMessageDto("hello"),
   attribution |-> Some([chat_id |-> [arena_id |-> dep.topology[a].local_arena_id,
                                      server_id |-> dep.topology[a].local_server_id,
                                      message_id |-> i],
                         sender_ip |-> 1 + (i % 3)])]

\* The ChatRepo of an arena where n messages have been broadcast and saved.
PreloadedChatRepo(dep, a, n) ==
  [recent |-> [i \in 1 .. n |-> RingEntry(dep, a, i)],
   last_timestamp |-> DefaultChatRepo.last_timestamp,
   saved |-> [i \in 1 .. n |-> RingEntry(dep, a, i)], broadcasts |-> n + 1]

\* The clients of arena a of a chat deployment after its player of lowest
\* id has sent a message that was broadcast and not saved.
OpeningBroadcast(dep, a, repo) ==
  IF DOMAIN repo = {} THEN repo
  ELSE LET sender == CHOOSE i \in DOMAIN repo : \A j \in DOMAIN repo : i <= j
       IN broadcast_message(PreloadedChatRepo(dep, a, dep.ring), repo,
                            ChatMessageDto("hello"),
                            Some([chat_id |-> [arena_id |-> dep.topology[a].local_arena_id,
                                               server_id |-> dep.topology[a].local_server_id,
                                               message_id |-> dep.ring + 1],
                                  sender_ip |-> repo[sender].client.ip_address]),
                            Some(sender), FALSE).players

\* Deployments of the chat model: the build (debug_assertions, no_plasma),
\* the bots of the arena, the messages already in the recent history of
\* each arena, and the clients of each arena, by role.
ChatDeployments ==
  { [ topology |-> TwoRealmsTwoServers, LIMBO |-> 2,
      no_plasma |-> FALSE, web_socket |-> TRUE, debug_assertions |-> FALSE,
      bots_count |-> 4, ring |-> 2,
      roster |-> [A |-> (0 :> "veteran" @@ 1 :> "newcomer"),
                  B |-> [i \in {} |-> "veteran"]] ],
    [ topology |-> SameRealmTwoServers, LIMBO |-> 0,
      no_plasma |-> FALSE, web_socket |-> TRUE, debug_assertions |-> TRUE,
      bots_count |-> 4, ring |-> 2,
      roster |-> [A |-> (1 :> "newcomer" @@ 2 :> "moderator"),
                  B |-> [i \in {} |-> "veteran"]] ],
    [ topology |-> TwoRealmsOneServer, LIMBO |-> 2,
      no_plasma |-> TRUE, web_socket |-> FALSE, debug_assertions |-> FALSE,
      bots_count |-> 0, ring |-> RecentCapacity,
      roster |-> [A |-> (0 :> "regular" @@ 2 :> "moderator"),
                  B |-> [i \in {} |-> "veteran"]] ] }

\* The client of a chat deployment with the given role, connected and
\* active, its inbox back-filled from the recent history.  A veteran has
\* been alive for a minute and has muted and reported other addresses
\* before; a regular has been alive for longer and has not; a newcomer has
\* been alive for less, or never; a moderator is a moderator and an admin, on a
\* team, sharing the newcomer's address.
ChatPlayer(dep, a, i, role) ==
  LET chat == initialize_client(PreloadedChatRepo(dep, a, dep.ring),
                                dep.topology[a].local_server_id,
                                dep.topology[a].local_arena_id)
      new == PlayerClientDataNew(
               IF role = "veteran" THEN [chat EXCEPT !.muted = 4 .. (MaxMuted + 2)]
               ELSE chat,
               Metrics(Some(0), None),
               IF role \in {"veteran", "regular"} THEN 1 ELSE 2,
               IF i % 2 = 0 THEN "t1" ELSE "t2", 0)
      client == [new EXCEPT
                   !.session = CASE role = "veteran" -> Session(Some("v1"), FALSE, FALSE)
                                 [] role = "regular" -> Session(Some("v2"), FALSE, FALSE)
                                 [] role = "newcomer" -> Session(None, FALSE, FALSE)
                                 [] role = "moderator" -> Session(Some("v3"), TRUE, TRUE),
                   !.status = Connected("obs1", Some("playing")),
                   !.reported = IF role = "veteran" THEN 4 .. (MaxReported + 2) ELSE {}]
  IN [PlayerNew(client) EXCEPT
        !.regulator = "Active",
        !.alias = role,
        !.team_id = IF role = "moderator" THEN Some(1) ELSE None,
        !.alive_duration = CASE role = "veteran" -> Some(ReportAliveSeconds)
                             [] role = "regular" -> Some(ReportAliveSeconds + 1)
                             [] role = "newcomer" ->
                                  IF dep.debug_assertions THEN None
                                  ELSE Some(ReportAliveSeconds - 1)
                             [] role = "moderator" -> None]

InitModeration ==
  /\ deployment \in ChatDeployments
  /\ now = 0
  /\ players = [a \in Arenas |->
                  OpeningBroadcast(deployment, a,
                    [i \in DOMAIN deployment.roster[a] |->
                       ChatPlayer(deployment, a, i, deployment.roster[a][i])])]
  /\ chat_repo = [a \in Arenas |-> PreloadedChatRepo(deployment, a, deployment.ring)]
  /\ requests = [a \in Arenas |-> <<>>]
  /\ local = [s \in Servers |-> <<>>]
  /\ web_socket = [s \in Servers |-> <<>>]
  /\ issued = <<>>
  /\ result = NoCall
  /\ metric_repo = [a \in Arenas |-> DefaultMetricRepo]
  /\ plasma = [a \in Arenas |-> <<>>]
  /\ unix_millis = 1
  /\ settings = [a \in Arenas |-> DefaultSettings]

\* The message numbers a client asks about: 0 is in no inbox; where two
\* messages were saved, 3 is the welcome and 4 the opening broadcast.
MessageNumbers == 0 .. 4

\* Player p of arena a asks to unmute the sender of message number n.
UnmutePlayer(a, p, n) ==
  /\ p \in DOMAIN players[a]
  /\ LET out == unmute_player(p, n, players[a])
     IN /\ players' = [players EXCEPT ![a] = out.players]
        /\ result' = Call("unmute_player", a, Some(p), [message_number |-> n],
                          FALSE, Some(out.ret))
  /\ UNCHANGED <<metric_repo, plasma, unix_millis, settings, deployment, now, chat_repo,
                 requests, local, web_socket, issued>>

\* Player p of arena a reports the sender of message number n.
Report(a, p, n) ==
  /\ p \in DOMAIN players[a]
  /\ LET out == report(p, n, players[a], metric_repo[a], plasma[a],
                       deployment.debug_assertions)
     IN /\ "err" \in DOMAIN out.ret \/ metric_repo[a].abuse_reports < MaxReports
        /\ players' = [players EXCEPT ![a] = out.players]
        /\ metric_repo' = [metric_repo EXCEPT ![a] = out.metric_repo]
        /\ plasma' = [plasma EXCEPT ![a] = out.plasma]
        /\ result' = Call("report", a, Some(p), [message_number |-> n],
                          FALSE, Some(out.ret))
  /\ UNCHANGED <<unix_millis, settings, deployment, now, chat_repo,
                 requests, local, web_socket, issued>>

\* The chat texts clients send.
ChatMessages ==
  { Plain(<<Word("hello")>>), Plain(<<Word("lag")>>),
    Command(<<Word("help")>>), Command(<<>>) }

\* Player p of arena a sends a chat message.
SendChat(a, p, message, whisper) ==
  /\ p \in DOMAIN players[a]
  /\ LET s == topology(a).local_server_id
         out == send_chat(chat_repo[a], topology(a).local_arena_id, p, message, whisper,
                          players[a], metric_repo[a], settings[a],
                          deployment.bots_count, plasma[a], unix_millis,
                          deployment.no_plasma, deployment.debug_assertions)
         sent == IF out.request = None
                 THEN [local |-> local[s], web_socket |-> web_socket[s]]
                 ELSE PlasmaSend(deployment.no_plasma, deployment.web_socket,
                                 ChannelCapacity, s, local[s], web_socket[s],
                                 Unwrap(out.request))
     IN /\ out.metric_repo = metric_repo[a] \/ metric_repo[a].chats < MaxChats
        /\ chat_repo' = [chat_repo EXCEPT ![a] = out.chat_repo]
        /\ players' = [players EXCEPT ![a] = out.players]
        /\ metric_repo' = [metric_repo EXCEPT ![a] = out.metric_repo]
        /\ settings' = [settings EXCEPT ![a] = out.settings]
        /\ plasma' = [plasma EXCEPT ![a] = out.plasma]
        /\ requests' = IF out.request = None THEN requests
                        ELSE [requests EXCEPT ![a] = Append(@, Unwrap(out.request))]
        /\ local' = [local EXCEPT ![s] = sent.local]
        /\ web_socket' = [web_socket EXCEPT ![s] = sent.web_socket]
        /\ result' = Call("send_chat", a, Some(p),
                          [message |-> message, whisper |-> whisper,
                           wall_clock |-> unix_millis],
                          FALSE, Some(out.ret))
  /\ UNCHANGED <<unix_millis, deployment, now, issued>>

\* A Chat update reaches arena a and is broadcast to its clients; the
\* sender is a player of the arena or of another one.
BroadcastChat(a, sender_player_id, sender_ip, save_recent) ==
  /\ chat_repo[a].broadcasts < deployment.ring + 1 + MaxHistory
  /\ sender_player_id # None =>
       /\ Unwrap(sender_player_id) \in DOMAIN players[a]
       /\ sender_ip = players[a][Unwrap(sender_player_id)].client.ip_address
  /\ LET entry == [message |-> ChatMessageDto("hello"),
                   attribution |->
                     Some([chat_id |-> [arena_id |-> topology(a).local_arena_id,
                                        server_id |-> topology(a).local_server_id,
                                        message_id |-> chat_repo[a].broadcasts + 1],
                           sender_ip |-> sender_ip])]
         out == broadcast_message(chat_repo[a], players[a], entry.message,
                                  entry.attribution, sender_player_id, save_recent)
     IN /\ players' = [players EXCEPT ![a] = out.players]
        /\ chat_repo' = [chat_repo EXCEPT ![a] =
                           [out.chat_repo EXCEPT
                              !.saved = IF save_recent THEN Append(@, entry) ELSE @,
                              !.broadcasts = @ + 1]]
        /\ result' = Call("broadcast_message", a, sender_player_id,
                          [entry |-> entry, save_recent |-> save_recent], FALSE, None)
  /\ UNCHANGED <<metric_repo, plasma, unix_millis, settings, deployment, now,
                 requests, local, web_socket, issued>>

\* A client connects to arena a and becomes player i, its chat back-filled
\* by initialize_client.
InitializeClient(a, i, token) ==
  /\ i \notin DOMAIN players[a]
  /\ LET chat == initialize_client(chat_repo[a], topology(a).local_server_id,
                                   topology(a).local_arena_id)
         client == PlayerClientDataNew(chat, Metrics(None, None), 1, token, now)
     IN /\ players' = [players EXCEPT ![a] =
                         Insert(@, i, [PlayerNew(client) EXCEPT
                                         !.regulator = RegulatorJoin(@).regulator])]
        /\ result' = Call("initialize_client", a, Some(i),
                          [server_number |-> topology(a).local_server_id,
                           arena_id |-> topology(a).local_arena_id],
                          FALSE, Some(chat))
  /\ UNCHANGED <<metric_repo, plasma, unix_millis, settings, deployment, now, chat_repo,
                 requests, local, web_socket, issued>>

\* The wall clock shows another time: later, or earlier after a correction.
SetWallClock(millis) ==
  /\ millis # unix_millis
  /\ unix_millis' = millis
  /\ result' = NoCall
  /\ UNCHANGED <<metric_repo, plasma, settings, deployment, now, players, chat_repo,
                 requests, local, web_socket, issued>>

\* Muting and unmuting, between handoffs.
Muting ==
  \/ \E p \in ClientIds, n \in MessageNumbers : MutePlayer(Origin, p, n)
  \/ \E p \in ClientIds, n \in MessageNumbers : UnmutePlayer(Origin, p, n)
  \/ \E p \in ClientIds : SendPlayer(Origin, p, Destination)
  \/ \E k \in 1 .. MaxPayloads, token \in {"t2"} : ReceivePlayer(k, token)

SpecMute == InitModeration /\ [][Muting]_vars

\* Reports.
Reporting == \E p \in ClientIds, n \in MessageNumbers : Report(Origin, p, n)

SpecReport == InitModeration /\ [][Reporting]_vars

\* Muting, unmuting and reporting, until a report is accepted.
Requesting ==
  \/ \E p \in ClientIds, n \in MessageNumbers : MutePlayer(Origin, p, n)
  \/ \E p \in ClientIds, n \in MessageNumbers : UnmutePlayer(Origin, p, n)
  \/ \E p \in ClientIds, n \in MessageNumbers :
        /\ metric_repo[Origin] = DefaultMetricRepo
        /\ Report(Origin, p, n)

SpecRequests == InitModeration /\ [][Requesting]_vars

\* Broadcasts to clients that mute and unmute, in the deployment whose two
\* clients have one address.
InitListen == InitModeration /\ deployment.debug_assertions

Listening ==
  \/ \E p \in ClientIds, n \in MessageNumbers : MutePlayer(Origin, p, n)
  \/ \E p \in ClientIds, n \in MessageNumbers : UnmutePlayer(Origin, p, n)
  \/ \E sender \in {None} \cup {Some(p) : p \in ClientIds}, ip \in IpAddrs :
        /\ chat_repo[Origin].broadcasts < deployment.ring + 1 + MaxBroadcasts
        /\ BroadcastChat(Origin, sender, ip, FALSE)

SpecListen == InitListen /\ [][Listening]_vars

\* The recent-message history, between broadcasts and new clients.
History ==
  \/ \E sender \in {None} \cup {Some(p) : p \in ClientIds}, ip \in IpAddrs,
        save_recent \in BOOLEAN : BroadcastChat(Origin, sender, ip, save_recent)
  \/ \E i \in ClientIds, token \in {"t1"} : InitializeClient(Origin, i, token)

SpecHistory == InitModeration /\ [][History]_vars

\* The SetSafeMode and SetSlowMode arms of handle_chat_request.
set_mode_request(slow, minutes, req_player_id, repo, realm_id, do_requests) ==
  IF req_player_id \notin DOMAIN repo
  THEN [plasma |-> do_requests, ret |-> [err |-> "nonexistent player"]]
  ELSE IF slow THEN set_slow_mode(minutes, repo[req_player_id], realm_id, do_requests)
  ELSE set_safe_mode(minutes, repo[req_player_id], realm_id, do_requests)

\* Player p of arena a asks for safe mode, or for slow mode, for some minutes.
SetMode(a, p, slow, minutes) ==
  /\ LET out == set_mode_request(slow, minutes, p, players[a],
                                 topology(a).local_arena_id.realm_id, plasma[a])
     IN /\ "err" \in DOMAIN out.ret \/ metric_repo[a].chats + Len(plasma[a]) < MaxCommands
        /\ plasma' = [plasma EXCEPT ![a] = out.plasma]
        /\ result' = Call(IF slow THEN "set_slow_mode" ELSE "set_safe_mode", a, Some(p),
                          [minutes |-> minutes], FALSE, Some(out.ret))
  /\ UNCHANGED <<metric_repo, unix_millis, settings, deployment, now, players, chat_repo,
                 requests, local, web_socket, issued>>

SetSafeMode(a, p, minutes) == SetMode(a, p, FALSE, minutes)
SetSlowMode(a, p, minutes) == SetMode(a, p, TRUE, minutes)

\* The commands for safe and slow mode clients send, and one that is none.
ModeCommands ==
  { Command(<<Word("safe"), Number(U32Of(10), "")>>),
    Command(<<Word("slow"), Number(U32Of(2), "h")>>),
    Command(<<Word("slow"), Number(U32Of(30), "m")>>),
    Command(<<Word("slow"), Word("off")>>),
    Command(<<Word("safe"), Word("none")>>),
    Command(<<Word("slow"), Word("banana")>>),
    Command(<<Word("safe")>>),
    Command(<<Word("slow"), Number(U32Of(MaxWholeHours + 1), "h")>>),
    Command(<<Word("help")>>) }

\* The minutes clients ask for: none, some, and the most a u32 holds.
ModeMinutes == {U32Of(0), U32Of(10), U32(U16Max, U16Max)}

\* Safe mode and slow mode, by request and by command.
Moderating ==
  \/ \E p \in ClientIds, message \in ModeCommands, whisper \in BOOLEAN :
        /\ metric_repo[Origin].chats + Len(plasma[Origin]) < MaxCommands
        /\ SendChat(Origin, p, message, whisper)
  \/ \E p \in ClientIds, minutes \in ModeMinutes : SetSafeMode(Origin, p, minutes)
  \/ \E p \in ClientIds, minutes \in ModeMinutes : SetSlowMode(Origin, p, minutes)

SpecModes == InitModeration /\ [][Moderating]_vars

\* RealmId::is_public_default: realm 0 is the public default one.
IsPublicDefault(realm_id) == realm_id = 0

Min(x, y) == IF x <= y THEN x ELSE y

\* An f32 the settings arrive with: a number, or not one.
F32(value) == [nan |-> FALSE, value |-> value]
NaN == [nan |-> TRUE, value |-> 0]

\* ArenaContext::set_settings, on the engine part of the settings;
\* min_bots and max_bots are the game's min_temporary_server_bots and
\* max_temporary_server_bots.
set_settings(dto, realm_id, min_bots, max_bots, debug) ==
  LET hard_max == IF debug THEN HardMaxBotsDebug ELSE HardMaxBots
  IN [bot_aggression |->
        IF dto.bot_aggression = None \/ Unwrap(dto.bot_aggression).nan THEN None
        ELSE Some(Min(Max(Unwrap(dto.bot_aggression).value, 0), MaxBotAggression)),
      bots |->
        IF dto.bots = None THEN None
        ELSE Some(Min(IF IsPublicDefault(realm_id) THEN Unwrap(dto.bots)
                      ELSE Min(Max(Unwrap(dto.bots), min_bots), max_bots),
                      hard_max))]

\* Deployments for the settings: a production build whose arena A is in a
\* temporary realm, with an admin; a debug build of the same; a production
\* build whose arenas are in the public default realm.
BotDeployments ==
  { [ topology |-> TwoRealmsTwoServers, LIMBO |-> 2,
      no_plasma |-> FALSE, web_socket |-> TRUE, debug_assertions |-> FALSE,
      bots_count |-> 4, ring |-> 2,
      min_temporary_server_bots |-> 2, max_temporary_server_bots |-> 32,
      roster |-> [A |-> (0 :> "regular" @@ 2 :> "moderator"),
                  B |-> [i \in {} |-> "veteran"]] ],
    [ topology |-> TwoRealmsTwoServers, LIMBO |-> 2,
      no_plasma |-> FALSE, web_socket |-> TRUE, debug_assertions |-> TRUE,
      bots_count |-> 4, ring |-> 2,
      min_temporary_server_bots |-> 0, max_temporary_server_bots |-> 128,
      roster |-> [A |-> (1 :> "newcomer" @@ 2 :> "moderator"),
                  B |-> [i \in {} |-> "veteran"]] ],
    [ topology |-> SameRealmTwoServers, LIMBO |-> 0,
      no_plasma |-> FALSE, web_socket |-> TRUE, debug_assertions |-> FALSE,
      bots_count |-> 0, ring |-> 2,
      min_temporary_server_bots |-> 2, max_temporary_server_bots |-> 32,
      roster |-> [A |-> (0 :> "regular" @@ 2 :> "moderator"),
                  B |-> [i \in {} |-> "veteran"]] ] }

InitSettings ==
  /\ deployment \in BotDeployments
  /\ now = 0
  /\ players = [a \in Arenas |->
                  OpeningBroadcast(deployment, a,
                    [i \in DOMAIN deployment.roster[a] |->
                       ChatPlayer(deployment, a, i, deployment.roster[a][i])])]
  /\ chat_repo = [a \in Arenas |-> PreloadedChatRepo(deployment, a, deployment.ring)]
  /\ requests = [a \in Arenas |-> <<>>]
  /\ local = [s \in Servers |-> <<>>]
  /\ web_socket = [s \in Servers |-> <<>>]
  /\ issued = <<>>
  /\ result = NoCall
  /\ metric_repo = [a \in Arenas |-> DefaultMetricRepo]
  /\ plasma = [a \in Arenas |-> <<>>]
  /\ unix_millis = 1
  /\ settings = [a \in Arenas |-> DefaultSettings]

\* The settings an arena is given.
SettingsDtos ==
  [bots : {None, Some(0), Some(40), Some(2000)}, bot_aggression : {None, Some(F32(20)), Some(NaN)}]

\* Arena a is given new settings.
SetSettings(a, dto) ==
  /\ settings' = [settings EXCEPT ![a] =
                    set_settings(dto, topology(a).local_arena_id.realm_id,
                                 deployment.min_temporary_server_bots,
                                 deployment.max_temporary_server_bots,
                                 deployment.debug_assertions)]
  /\ result' = Call("set_settings", a, None, [settings |-> dto], FALSE, None)
  /\ UNCHANGED <<metric_repo, unix_millis, plasma, deployment, now, players, chat_repo,
                 requests, local, web_socket, issued>>

\* The /bots commands clients send.
BotCommands ==
  { Command(<<Word("bots")>>),
    Command(<<Word("bots"), Number(U32Of(0), "")>>),
    Command(<<Word("bots"), Number(U32Of(HardMaxBotsDebug), "")>>),
    Command(<<Word("bots"), Number(U32Of(HardMaxBotsDebug + 1), "")>>),
    Command(<<Word("bots"), Number(U32Of(HardMaxBots), "")>>),
    Command(<<Word("bots"), Number(U32Of(2000), "")>>),
    Command(<<Word("bots"), Number(U32Of(U16Max + 1), "")>>),
    Command(<<Word("bots"), Word("default")>>),
    Command(<<Word("bots"), Word("banana")>>) }

\* The bot count, by settings and by command.
Configuring ==
  \/ \E p \in ClientIds, message \in BotCommands :
        /\ metric_repo[Origin].chats < MaxCommands
        /\ SendChat(Origin, p, message, FALSE)
  \/ \E dto \in SettingsDtos : SetSettings(Origin, dto)

SpecSettings == InitSettings /\ [][Configuring]_vars

\* --------------------------------------------------------------- occupancy
\* The two arenas of a handoff side by side: the origin sends players with
\* send_player, the destination receives the payloads, and the regulators
\* of both admit their joining players.
Occupying ==
  \/ \E p \in ClientIds : SendPlayer(Origin, p, Destination)
  \/ \E k \in 1 .. MaxPayloads, token \in FreshTokens : ReceivePlayer(k, token)
  \/ \E a \in Arenas, p \in ClientIds : RegulatorTick(a, p)
  \/ \E p \in ClientIds, attachment \in Attachments : Attach(Destination, p, attachment)
  \/ \E p \in ClientIds : RemovePlayer(Origin, p)
  \/ AdvanceClock

SpecOccupancy == Init /\ [][Occupying]_vars

\* ------------------------------------------------------------------- relay
\* The requests an arena hands to send_to_plasma.send: server messages for
\* this server, for the other, for both and for none, a chat message, and
\* the request of save_file.
RelayRequests(a) ==
  LET here == topology(a).local_server_id
      arena_id == topology(a).local_arena_id
  IN { [kind |-> "SendServerMessage", recipients |-> recipients,
        message |-> [kind |-> "Ack", old_arena_id |-> arena_id, old_player_id |-> 0,
                     old_token |-> "t1", arena_id |-> arena_id, player_id |-> 1,
                     token |-> "t2"]] :
         recipients \in {{here}, Servers \ {here}, Servers, {}} }
     \cup
     { [kind |-> "SendChat", admin |-> FALSE, alias |-> "Guest", authentic |-> FALSE,
        ip_address |-> 1, message |-> Plain(<<Word("darn"), Word("lag")>>),
        arena_id |-> arena_id, team_name |-> None, player_id |-> Some(0),
        timestamp |-> timestamp, visitor_id |-> Some("v7"), recipient |-> "Broadcast"] :
         timestamp \in 1 .. MaxSends }
     \cup
     { [kind |-> "SaveFile", arena_id |-> arena_id, player_id |-> 0, visitor_id |-> "v7",
        file_path |-> "save", content_data |-> <<1>>, content_type |-> None] }

\* Arena a hands a request to send_to_plasma.send.
RelaySend(a, request) ==
  /\ Len(requests[a]) < MaxSends
  /\ LET s == topology(a).local_server_id
         sent == PlasmaSend(deployment.no_plasma, deployment.web_socket, ChannelCapacity,
                            s, local[s], web_socket[s], request)
     IN /\ local' = [local EXCEPT ![s] = sent.local]
        /\ web_socket' = [web_socket EXCEPT ![s] = sent.web_socket]
  /\ requests' = [requests EXCEPT ![a] = Append(@, request)]
  /\ result' = Call("send", a, None, [request |-> request], FALSE, None)
  /\ UNCHANGED <<metric_repo, plasma, unix_millis, settings, deployment, now, players,
                 chat_repo, issued>>

\* The socket task of server s takes the oldest request off the channel.
RelayTake(s) ==
  /\ web_socket[s] # <<>>
  /\ web_socket' = [web_socket EXCEPT ![s] = Tail(@)]
  /\ result' = NoCall
  /\ UNCHANGED <<metric_repo, plasma, unix_millis, settings, deployment, now, players,
                 chat_repo, requests, local, issued>>

\* The dispatcher, fed by one arena and drained by the socket task.
Relaying ==
  \/ \E request \in RelayRequests(Origin) : RelaySend(Origin, request)
  \/ \E s \in Servers : RelayTake(s)

SpecRelay == Init /\ [][Relaying]_vars

\* ---------------------------------------------------------------- victories
\* Seconds a player must have been alive for its defeat, or its victory, to
\* count as a superior or inferior one.
VictoryAliveSeconds == 60
\* A claim's value is a u64: ClaimLimbs limbs of 16 bits, the most
\* significant first.
ClaimLimbs == 4
ClaimOf(n) == [i \in 1 .. ClaimLimbs |-> IF i = ClaimLimbs THEN n ELSE 0]
ClaimMax == [i \in 1 .. ClaimLimbs |-> U16Max]

\* value + 1 from limb i upwards, carrying; past the first limb it wraps.
RECURSIVE AddOneFrom(_, _)
AddOneFrom(value, i) ==
  IF i = 0 THEN value
  ELSE IF value[i] < U16Max THEN [value EXCEPT ![i] = @ + 1]
  ELSE AddOneFrom([value EXCEPT ![i] = 0], i - 1)

\* A variant of the addition that wraps.
WrappingAddOne(value) == AddOneFrom(value, ClaimLimbs)
\* u64::saturating_add(1)
SaturatingAddOne(value) == IF value = ClaimMax THEN value ELSE AddOneFrom(value, ClaimLimbs)

\* The claims of a client that has none.
NoClaims ==
  [key \in {"victories", "superior_victories", "inferior_victories"} |-> None]

\* claim(key).map(|c| c.value).unwrap_or_default().saturating_add(1),
\* written back with update_claim.
IncrementClaim(claims, key) ==
  [claims EXCEPT ![key] =
     Some(SaturatingAddOne(IF @ = None THEN ClaimOf(0) ELSE Unwrap(@)))]

\* liveboard.score.some().unwrap_or_default()
ScoreOf(player) == IF player.score = None THEN 0 ELSE Unwrap(player.score)

\* ArenaContext::tally_victory on the PlayerRepo `repo` at time t, for two
\* different ids.
tally_victory(repo, victor, defeated, realm_id, t) ==
  IF victor \notin DOMAIN repo \/ defeated \notin DOMAIN repo THEN repo
  ELSE IF repo[victor].inner # "Client" THEN repo
  ELSE
    LET defeated_score == ScoreOf(repo[defeated])
        is_bot == repo[defeated].inner = "Bot"
        quested == [repo EXCEPT ![victor].client.quests =
                      Append(@, [kind |-> "Victory", bot |-> is_bot,
                                 score |-> defeated_score])]
    IN IF ~IsPublicDefault(realm_id) \/ is_bot THEN quested
       ELSE
         LET counted == [quested EXCEPT ![victor].client.claims =
                           IncrementClaim(@, "victories")]
             victor_score == ScoreOf(repo[victor])
             inc == IF /\ defeated_score \div 2 > victor_score
                       /\ t - repo[defeated].was_alive_timestamp > VictoryAliveSeconds
                    THEN Some("superior_victories")
                    ELSE IF /\ defeated_score < victor_score \div 2
                            /\ t - repo[victor].was_alive_timestamp > VictoryAliveSeconds
                    THEN Some("inferior_victories")
                    ELSE None
         IN IF inc = None THEN counted
            ELSE [counted EXCEPT ![victor].client.claims = IncrementClaim(@, Unwrap(inc))]

\* Deployments for the victories: an arena of the public default realm and
\* one of another realm, each with clients and a bot; id 1 is free in the
\* second.
VictoryDeployments ==
  { [ topology |-> SameRealmTwoServers, LIMBO |-> 2,
      no_plasma |-> FALSE, web_socket |-> TRUE,
      roster |-> [A |-> (0 :> "rookie" @@ 1 :> "champion" @@ 2 :> "bot"),
                  B |-> [i \in {} |-> "rookie"]] ],
    [ topology |-> TwoRealmsTwoServers, LIMBO |-> 2,
      no_plasma |-> FALSE, web_socket |-> TRUE,
      roster |-> [A |-> (0 :> "champion" @@ 2 :> "bot"),
                  B |-> [i \in {} |-> "rookie"]] ],
    [ topology |-> TwoRealmsOneServer, LIMBO |-> 0,
      no_plasma |-> FALSE, web_socket |-> FALSE,
      roster |-> [A |-> (0 :> "rookie" @@ 1 :> "veteran" @@ 2 :> "champion"),
                  B |-> [i \in {} |-> "rookie"]] ] }

\* The time the victories start at.
VictoryStart == 2 * VictoryAliveSeconds

\* The player of a victory deployment with the given role: a rookie is a
\* client with a low score and no claims that has just come alive; a
\* veteran is one with a high score and some victories, alive for long; a
\* champion is a veteran with as many victories as a claim holds, who has
\* not been admitted by the regulator yet; a bot is a bot.
VictoryPlayer(dep, a, i, role) ==
  IF role = "bot"
  THEN [inner |-> "Bot", client |-> None, regulator |-> "Active", alias |-> "Bot",
        team_id |-> None, alive_duration |-> None, was_alive |-> FALSE,
        was_ever_alive |-> FALSE, sends |-> 0, origin |-> None,
        score |-> Some(50), was_alive_timestamp |-> 0]
  ELSE
    LET chat == initialize_client(DefaultChatRepo, dep.topology[a].local_server_id,
                                  dep.topology[a].local_arena_id)
        new == PlayerClientDataNew(chat, Metrics(Some(0), None), 1,
                                   IF i % 2 = 0 THEN "t1" ELSE "t2", 0)
        client == [new EXCEPT !.status = Connected("obs1", Some("playing"))]
                  @@ [claims |-> CASE role = "rookie" -> NoClaims
                                   [] role = "veteran" ->
                                        [NoClaims EXCEPT !["victories"] = Some(ClaimOf(U16Max))]
                                   [] role = "champion" ->
                                        [NoClaims EXCEPT !["victories"] = Some(ClaimMax)]]
    IN [PlayerNew(client) EXCEPT
          !.regulator = IF role = "champion" THEN "Joining" ELSE "Active",
          !.alias = role]
       @@ [score |-> IF role = "rookie" THEN None ELSE Some(100),
           was_alive_timestamp |-> IF role = "rookie" THEN VictoryStart ELSE 0]

InitVictory ==
  /\ deployment \in VictoryDeployments
  /\ now = VictoryStart
  /\ players = [a \in Arenas |->
                  [i \in DOMAIN deployment.roster[a] |->
                     VictoryPlayer(deployment, a, i, deployment.roster[a][i])]]
  /\ chat_repo = [a \in Arenas |-> DefaultChatRepo]
  /\ requests = [a \in Arenas |-> <<>>]
  /\ local = [s \in Servers |-> <<>>]
  /\ web_socket = [s \in Servers |-> <<>>]
  /\ issued = <<>>
  /\ result = NoCall
  /\ metric_repo = [a \in Arenas |-> DefaultMetricRepo]
  /\ plasma = [a \in Arenas |-> <<>>]
  /\ unix_millis = 1
  /\ settings = [a \in Arenas |-> DefaultSettings]

\* The number of Victory events among the quest events of a client.
VictoryQuests(quests) ==
  Cardinality({i \in DOMAIN quests : quests[i].kind = "Victory"})

\* The game calls tally_victory(victor, defeated) on arena a.
TallyVictory(a, victor, defeated) ==
  /\ victor # defeated
  /\ LET out == tally_victory(players[a], victor, defeated,
                              topology(a).local_arena_id.realm_id, now)
     IN /\ IF out = players[a] THEN TRUE
           ELSE VictoryQuests(players[a][victor].client.quests) < MaxVictories
        /\ players' = [players EXCEPT ![a] = out]
        /\ result' = Call("tally_victory", a, Some(victor), [defeated |-> defeated],
                          FALSE, None)
  /\ UNCHANGED <<metric_repo, plasma, unix_millis, settings, deployment, now, chat_repo,
                 requests, local, web_socket, issued>>

\* Victories, of players the regulator admits and the game sends away.
Winning ==
  \/ \E victor \in ClientIds, defeated \in ClientIds : TallyVictory(Origin, victor, defeated)
  \/ \E p \in ClientIds : RegulatorTick(Origin, p)
  \/ \E p \in ClientIds : SendPlayer(Origin, p, Destination)

SpecVictory == InitVictory /\ [][Winning]_vars

\* Chat messages and commands, under a wall clock that jumps.
Chatting ==
  \/ \E p \in ClientIds, message \in ChatMessages, whisper \in BOOLEAN :
        SendChat(Origin, p, message, whisper)
  \/ \E millis \in 1 .. MaxMillis : SetWallClock(millis)

SpecSendChat == InitModeration /\ [][Chatting]_vars

\* ------------------------------------------------------------------ claims
SendOps == {"send_player", "send_player_impl"}

\* The player the last call was made on, as the call found it and as it is.
PrePlayer == Unwrap(result.pre)
PostPlayer == players[result.arena][Unwrap(result.player_id)]

\* Some delivery of an issued payload to receive_player happens in this step.
IsDeliveryOf(k) ==
  /\ k \in 1 .. Len(issued)
  /\ Len(issued') = Len(issued)
  /\ issued'[k].deliveries = issued[k].deliveries + 1

\* C1: send_player / send_player_impl on a client whose status is already
\* Redirected or Pending aborts and returns no RedirectedPlayer payload.
C1_RedirectedOrPendingRejected ==
  (/\ result.op \in SendOps
   /\ result.pre # None
   /\ PrePlayer.client.status.kind \in {"Redirected", "Pending"})
  => (result.panic /\ result.ret = None)

\* C1 witness: send_player on an active player whose status was already
\* Pending or Redirected has aborted.
C1_Witness ==
  /\ result.op = "send_player"
  /\ result.pre # None
  /\ PrePlayer.regulator = "Active"
  /\ PrePlayer.client.status.kind \in {"Redirected", "Pending"}
  /\ result.panic

C4_AbortLeavesPlayerUnchanged ==
  (result.op \in SendOps /\ result.panic /\ result.pre # None)
  => /\ PostPlayer.client.status = PrePlayer.client.status
     /\ PostPlayer.regulator = PrePlayer.regulator

\* C5: receive_player returns the lowest-numbered client id the arena did
\* not hold, and the arena holds it after the call.
C5_LowestFreeId ==
  (result.op = "receive_player" /\ ~result.panic)
  => /\ result.ret # None
     /\ Unwrap(result.ret) \notin result.occupied
     /\ \A j \in 0 .. (Unwrap(result.ret) - 1) : j \in result.occupied
     /\ Unwrap(result.ret) \in DOMAIN players[result.arena]

\* C5 witness: with ids 0 and 2 occupied, receive_player returned 1.
C5_Witness ==
  /\ result.op = "receive_player"
  /\ result.occupied = {0, 2}
  /\ result.ret = Some(1)

\* C6: receive_player on an arena whose client ids are all occupied fails
\* fatally and has no effect: no player inserted or modified, nothing
\* handed to or routed by the relay dispatcher.
C6_ExhaustedIdsNoEffect ==
  [][\A k \in 1 .. MaxPayloads :
       (IsDeliveryOf(k) /\ DOMAIN players[issued[k].to] = ClientIds)
       => /\ result'.op = "receive_player"
          /\ result'.panic
          /\ result'.ret = None
          /\ players' = players
          /\ requests' = requests
          /\ local' = local
          /\ web_socket' = web_socket]_vars

\* C6 witness: receive_player has failed on a full arena.
C6_Witness ==
  /\ result.op = "receive_player"
  /\ result.panic
  /\ result.occupied = ClientIds

\* C7: after receive_player returns p, player p is client-backed, in Limbo
\* with expiry exactly 10 seconds after the call, its regulator joined, and
\* was_alive holds exactly when the payload's metrics show play started and
\* not stopped.
C7_ReconstitutedInLimbo ==
  (result.op = "receive_player" /\ ~result.panic)
  => LET player == players[result.arena][Unwrap(result.ret)]
         metrics == issued[result.args.payload].body.metrics
     IN /\ player.inner = "Client"
        /\ player.client.status = [kind |-> "Limbo", expiry |-> result.at + 10]
        /\ player.regulator = "Joining"
        /\ player.was_alive =
             (metrics.play_started # None /\ metrics.play_stopped = None)

\* C7 witness: a player whose play had started and not stopped has been
\* reconstituted.
C7_Witness ==
  /\ result.op = "receive_player"
  /\ ~result.panic
  /\ players[result.arena][Unwrap(result.ret)].was_alive

\* C8: every completed receive_player hands exactly one request to the
\* relay dispatcher: a SendServerMessage to the origin server alone whose
\* Ack carries the origin arena id, the payload's old player id and token,
\* the local arena id, the returned player id and the new player's token.
C8_ExactlyOneAck ==
  [][\A k \in 1 .. MaxPayloads :
       (IsDeliveryOf(k) /\ ~result'.panic)
       => LET a == issued[k].to
              id == Unwrap(result'.ret)
          IN /\ requests' = [requests EXCEPT ![a] = Append(@,
                  [kind |-> "SendServerMessage",
                   recipients |-> {topology(issued[k].from).local_server_id},
                   message |->
                     [kind |-> "Ack",
                      old_arena_id |-> topology(issued[k].from).local_arena_id,
                      old_player_id |-> issued[k].body.old_player_id,
                      old_token |-> issued[k].body.old_token,
                      arena_id |-> topology(a).local_arena_id,
                      player_id |-> id,
                      token |-> players'[a][id].client.token]])]
             /\ result'.args.server_id = topology(issued[k].from).local_server_id
             /\ result'.args.arena_id = topology(issued[k].from).local_arena_id]_vars

\* C8 witness: a receive_player has completed and handed over its Ack, whose
\* old and new tokens differ.
C8_Witness ==
  /\ result.op = "receive_player"
  /\ ~result.panic
  /\ Len(requests[result.arena]) = 1
  /\ requests[result.arena][1].message.old_token
       # requests[result.arena][1].message.token

\* The players of payload k's destination that were reconstituted from it.
ReconstitutedFrom(k) ==
  {p \in DOMAIN players[issued[k].to] : players[issued[k].to][p].origin = Some(k)}

\* C9 (as claimed): whatever is delivered, a second delivery of the same
\* payload included, at most one player is reconstituted from a payload.
C9_AtMostOnePlayerPerPayload ==
  \A k \in 1 .. Len(issued) : Cardinality(ReconstitutedFrom(k)) <= 1

\* C9 (amended): every completed receive_player call reconstitutes exactly
\* one more player from the payload it is given, a second delivery of the
\* payload included; at most one player is reconstituted from a payload
\* that has been delivered at most once.
C9_OnePlayerPerDelivery ==
  /\ [](\A k \in 1 .. Len(issued) :
          /\ Cardinality(ReconstitutedFrom(k)) <= issued[k].deliveries
          /\ issued[k].deliveries <= 1 => Cardinality(ReconstitutedFrom(k)) <= 1)
  /\ [][\A k \in 1 .. MaxPayloads :
          IsDeliveryOf(k)
          => Cardinality(ReconstitutedFrom(k)') =
               Cardinality(ReconstitutedFrom(k)) + (IF result'.panic THEN 0 ELSE 1)]_vars

\* C9 witness: a payload delivered twice has been reconstituted twice.
C9_Witness ==
  \E k \in 1 .. Len(issued) :
    /\ issued[k].deliveries = 2
    /\ Cardinality(ReconstitutedFrom(k)) = 2

\* C10: a successful send_player to an arena of another realm leaves the
\* player's inbox empty and its join-announced marker cleared, a send to an
\* arena of the same realm leaves both unchanged; the muted set is unchanged
\* in both cases, and the payload carries the chat data the player is left
\* with.
C10_ChatResetAcrossRealms ==
  (result.op = "send_player" /\ ~result.panic)
  => LET destination == result.args.arena_query.arena_id
         here == topology(result.arena).local_arena_id
         before == PrePlayer.client.chat
         after == PostPlayer.client.chat
         payload == Unwrap(result.ret).chat
     IN /\ after.muted = before.muted
        /\ payload = after
        /\ IF destination.realm_id # here.realm_id
           THEN after.inbox = <<>> /\ after.join_announced = None
           ELSE after.inbox = before.inbox
                /\ after.join_announced = before.join_announced

\* C10 witness: a player with messages in its inbox, an announced join and
\* a muted sender has been sent to an arena of another realm.
C10_Witness ==
  /\ result.op = "send_player"
  /\ ~result.panic
  /\ result.args.arena_query.arena_id.realm_id
       # topology(result.arena).local_arena_id.realm_id
  /\ PrePlayer.client.chat.inbox # <<>>
  /\ PrePlayer.client.chat.join_announced # None
  /\ PrePlayer.client.chat.muted # {}

\* C11: the payload send_player returns carries the player's id, token,
\* session, metrics, address and muted set as they were when it was called,
\* and the player receive_player reconstitutes from a payload has the
\* payload's session, metrics, address and muted set.
C11_HandoffRoundTrip ==
  /\ (result.op = "send_player" /\ ~result.panic)
     => LET payload == Unwrap(result.ret)
            original == PrePlayer.client
        IN /\ payload.old_player_id = Unwrap(result.player_id)
           /\ payload.old_token = original.token
           /\ payload.session = original.session
           /\ payload.metrics = original.metrics
           /\ payload.ip_address = original.ip_address
           /\ payload.chat.muted = original.chat.muted
  /\ (result.op = "receive_player" /\ ~result.panic)
     => LET payload == issued[result.args.payload].body
            client == players[result.arena][Unwrap(result.ret)].client
        IN /\ client.session = payload.session
           /\ client.metrics = payload.metrics
           /\ client.ip_address = payload.ip_address
           /\ client.chat.muted = payload.chat.muted

\* C11 witness: a player with a visitor id and a muted sender has been
\* reconstituted from its payload.
C11_Witness ==
  /\ result.op = "receive_player"
  /\ ~result.panic
  /\ issued[result.args.payload].body.session.visitor_id # None
  /\ issued[result.args.payload].body.chat.muted # {}

\* The SendChat requests among `reqs`, and those a step adds to arena a.
SendChats(reqs) == SelectSeq(reqs, LAMBDA r : r.kind = "SendChat")
Range(seq) == {seq[i] : i \in DOMAIN seq}
IssuedSendChats(a) == Range(SendChats(plasma[a])) \cup Range(SendChats(requests[a]))
NewSendChats(a) ==
  Range(SendChats(SubSeq(plasma'[a], Len(plasma[a]) + 1, Len(plasma'[a]))))
    \cup Range(SendChats(SubSeq(requests'[a], Len(requests[a]) + 1, Len(requests'[a]))))

\* C12: every SendChat request a ChatRepo issues, for an ordinary message
\* or for a command, carries the timestamp max(wall clock, last_timestamp
\* + 1), which is strictly greater than the timestamp of every SendChat
\* request the arena issued before, whatever the wall clock shows.
C12_TimestampsIncrease ==
  [][\A a \in Arenas : \A request \in NewSendChats(a) :
       /\ request.timestamp = Max(unix_millis, chat_repo[a].last_timestamp + 1)
       /\ request.timestamp = chat_repo'[a].last_timestamp
       /\ \A earlier \in IssuedSendChats(a) : request.timestamp > earlier.timestamp]_vars

\* A command is sent after an ordinary message, the wall clock having gone
\* back behind the first timestamp in between.
C12_Witness ==
  /\ result.op = "send_chat"
  /\ Len(plasma[Origin]) = 2
  /\ plasma[Origin][1].kind = "SendChat" /\ plasma[Origin][1].recipient = "Broadcast"
  /\ plasma[Origin][2].kind = "SendChat" /\ plasma[Origin][2].recipient = "None"
  /\ result.args.wall_clock < plasma[Origin][1].timestamp
  /\ plasma[Origin][1].timestamp > DefaultChatRepo.last_timestamp + 1

\* The muted set of every client, in an arena or in a payload on its way,
\* holds at most MaxMuted addresses.
MutedWithinCap ==
  /\ \A a \in Arenas : \A p \in DOMAIN players[a] :
        players[a][p].inner = "Client" =>
          Cardinality(players[a][p].client.chat.muted) <= MaxMuted
  /\ \A k \in DOMAIN issued : Cardinality(issued[k].body.chat.muted) <= MaxMuted

\* The sender the last call's message number resolved to, in the inbox
\* the call found.
ResolvedSender == InboxAttribute(PrePlayer.client.chat.inbox, result.args.message_number)

\* C13 (as stated): no client ever has more than 32 muted addresses, and a
\* mute attempt made when 32 are muted returns "too many muted" and leaves
\* the set unchanged.
C13_MuteAtCapTooManyMuted ==
  /\ MutedWithinCap
  /\ (result.op = "mute_player" /\ Cardinality(PrePlayer.client.chat.muted) >= MaxMuted) =>
       /\ result.ret = Some([err |-> "too many muted"])
       /\ PostPlayer.client.chat.muted = PrePlayer.client.chat.muted

\* C13 (amended): no client ever has more than 32 muted addresses; a mute
\* attempt made when 32 are muted leaves the set unchanged, and returns
\* "too many muted" when its message number resolves to a sender and
\* "unknown sender" when it does not.
C13_MutedAtMost32 ==
  /\ MutedWithinCap
  /\ (result.op = "mute_player" /\ Cardinality(PrePlayer.client.chat.muted) >= MaxMuted) =>
       /\ result.ret = Some([err |-> IF ResolvedSender # None THEN "too many muted"
                                      ELSE "unknown sender"])
       /\ PostPlayer.client.chat.muted = PrePlayer.client.chat.muted

\* A client with 32 muted addresses tries to mute a sender it has not muted.
C13_Witness ==
  /\ result.op = "mute_player"
  /\ Cardinality(PrePlayer.client.chat.muted) = MaxMuted
  /\ ResolvedSender # None
  /\ Unwrap(ResolvedSender).sender_ip \notin PrePlayer.client.chat.muted
  /\ result.ret = Some([err |-> "too many muted"])

\* C14: no client ever holds more than 6 reported addresses, and a report
\* by a client that is no moderator, made when 6 are held, is rejected and
\* leaves the set unchanged.
C14_ReportedAtMost6 ==
  /\ \A a \in Arenas : \A p \in DOMAIN players[a] :
        players[a][p].inner = "Client" =>
          Cardinality(players[a][p].client.reported) <= MaxReported
  /\ (/\ result.op = "report"
      /\ ~Moderator(PrePlayer.client)
      /\ Cardinality(PrePlayer.client.reported) >= MaxReported) =>
       /\ "err" \in DOMAIN Unwrap(result.ret)
       /\ PostPlayer.client.reported = PrePlayer.client.reported

\* A client that holds 6 reported addresses reports a seventh sender.
C14_Witness ==
  /\ result.op = "report"
  /\ ~Moderator(PrePlayer.client)
  /\ Cardinality(PrePlayer.client.reported) = MaxReported
  /\ ResolvedSender # None
  /\ Unwrap(ResolvedSender).sender_ip \notin
       PrePlayer.client.reported \cup {PrePlayer.client.ip_address}
  /\ result.ret = Some([err |-> "too many reports"])

\* In a step that is a report: the requester and the sender its message
\* number resolves to, as the call finds them, and whether it is rejected
\* without a trace in the metric and the relay.
Reporter == players[result'.arena][Unwrap(result'.player_id)]
ReportedSender == InboxAttribute(Reporter.client.chat.inbox, result'.args.message_number)
ReportAccepted == "ok" \in DOMAIN Unwrap(result'.ret)
ReportRejected ==
  /\ "err" \in DOMAIN Unwrap(result'.ret)
  /\ metric_repo' = metric_repo
  /\ plasma' = plasma

\* C15 (as stated): a report by a client against the sender that the same
\* client has just reported with success is rejected: it returns an error,
\* the abuse-report metric stays and no ModerateAbuse is forwarded.
C15_DuplicateReportRejected ==
  [][(/\ result.op = "report" /\ "ok" \in DOMAIN Unwrap(result.ret)
      /\ result'.op = "report"
      /\ result'.arena = result.arena
      /\ result'.player_id = result.player_id
      /\ result'.args = result.args) => ReportRejected]_vars

\* C15 (amended): a report by a client that is no moderator against an
\* address in its reported set is rejected without a trace; every report
\* of such a client that succeeds puts the sender's address in that set,
\* and no report takes an address out of it.
C15_NonModeratorDuplicateRejected ==
  [][result'.op = "report" =>
       /\ (/\ ~Moderator(Reporter.client)
           /\ ReportedSender # None
           /\ Unwrap(ReportedSender).sender_ip \in Reporter.client.reported) =>
            ReportRejected /\ players' = players
       /\ (~Moderator(Reporter.client) /\ ReportAccepted) =>
            Unwrap(ReportedSender).sender_ip \in
              players'[result'.arena][Unwrap(result'.player_id)].client.reported
       /\ \A p \in DOMAIN players[result'.arena] :
            players[result'.arena][p].client.reported \subseteq
              players'[result'.arena][p].client.reported]_vars

\* A client that is no moderator has reported a sender with success and
\* reports the same message again, in vain.
C15_Witness ==
  /\ result.op = "report"
  /\ ~Moderator(PrePlayer.client)
  /\ metric_repo[result.arena].abuse_reports = 1
  /\ ResolvedSender # None
  /\ Unwrap(ResolvedSender).sender_ip \in PrePlayer.client.reported
  /\ Cardinality(PrePlayer.client.reported) < MaxReported
  /\ result.ret = Some([err |-> "already reported"])

\* C16: in a production build, a report whose message number resolves to
\* the requester's own address is rejected, for moderators and admins too:
\* it returns an error and changes no reported set, nor the abuse-report
\* metric, nor what was forwarded to the relay.
C16_OwnAddressRejected ==
  [][(/\ result'.op = "report"
      /\ ~deployment.debug_assertions
      /\ ReportedSender # None
      /\ Unwrap(ReportedSender).sender_ip = Reporter.client.ip_address) =>
       ReportRejected /\ players' = players]_vars

\* In a production build, a moderator and admin has reported a message
\* from its own address.
C16_Witness ==
  /\ result.op = "report"
  /\ ~deployment.debug_assertions
  /\ Moderator(PrePlayer.client) /\ Admin(PrePlayer.client)
  /\ ResolvedSender # None
  /\ Unwrap(ResolvedSender).sender_ip = PrePlayer.client.ip_address
  /\ result.ret = Some([err |-> "cannot restrict own IP"])

\* A report that the own-address check, the limit and the reported set
\* let through.
OtherwiseValid ==
  /\ result'.op = "report"
  /\ ReportedSender # None
  /\ Unwrap(ReportedSender).sender_ip # Reporter.client.ip_address
  /\ Cardinality(Reporter.client.reported) < MaxReported
  /\ Unwrap(ReportedSender).sender_ip \notin Reporter.client.reported

\* C17 (as stated): an otherwise valid report of a client that is no
\* moderator is accepted when the requester has been alive for under 60
\* seconds and rejected when for 60 seconds or more.
C17_ReportOnlyWhileUnderAMinute ==
  [][(OtherwiseValid /\ ~Moderator(Reporter.client) /\ Reporter.alive_duration # None) =>
       IF Unwrap(Reporter.alive_duration) < ReportAliveSeconds
       THEN ReportAccepted ELSE ReportRejected]_vars

\* C17 (amended): an otherwise valid report of a client that is no
\* moderator is accepted when the requester has been alive for 60 seconds
\* or more, and rejected with "report requirements unmet", changing
\* nothing, when for under 60 seconds or never.
C17_ReportOnlyAfterAMinute ==
  [][(OtherwiseValid /\ ~Moderator(Reporter.client)) =>
       IF /\ Reporter.alive_duration # None
          /\ Unwrap(Reporter.alive_duration) >= ReportAliveSeconds
       THEN ReportAccepted
       ELSE /\ result'.ret = Some([err |-> "report requirements unmet"])
            /\ ReportRejected /\ players' = players]_vars

\* A client alive for 59 seconds has reported another sender in vain.
C17_Witness ==
  /\ result.op = "report"
  /\ ~Moderator(PrePlayer.client)
  /\ PrePlayer.alive_duration = Some(ReportAliveSeconds - 1)
  /\ ResolvedSender # None
  /\ Unwrap(ResolvedSender).sender_ip # PrePlayer.client.ip_address
  /\ result.ret = Some([err |-> "report requirements unmet"])

\* The last n entries of a sequence.
LastOf(seq, n) == SubSeq(seq, Len(seq) - n + 1, Len(seq))

\* C18: the recent-message history holds at most 16 entries, and they are
\* the last (up to 16) messages broadcast with save_recent set, in the
\* order of their broadcast; a message broadcast with save_recent unset
\* is not in it.
C18_RecentIsLastSaved ==
  /\ \A a \in Arenas :
        LET recent == chat_repo[a].recent
            saved == chat_repo[a].saved
        IN /\ Len(recent) <= RecentCapacity
           /\ recent = LastOf(saved, IF Len(saved) < RecentCapacity
                                     THEN Len(saved) ELSE RecentCapacity)
  /\ (result.op = "broadcast_message" /\ ~result.args.save_recent) =>
       \A i \in DOMAIN chat_repo[result.arena].recent :
          chat_repo[result.arena].recent[i] # result.args.entry

\* A message is saved into a full history, after one that was not saved.
C18_Witness ==
  /\ result.op = "broadcast_message" /\ result.args.save_recent
  /\ Len(chat_repo[Origin].saved) = RecentCapacity + 1
  /\ chat_repo[Origin].broadcasts = RecentCapacity + 3
  /\ Len(chat_repo[Origin].recent) = RecentCapacity
  /\ chat_repo[Origin].recent[RecentCapacity] = result.args.entry

\* C19: the chat state initialize_client returns has no muted address, and
\* its inbox holds the entries of the recent-message history, oldest first,
\* each with its stored attribution, and then, last, one Welcome message
\* with the given server number and arena id; the call leaves the history
\* as it was.
C19_InitializeClientBackfills ==
  [][result'.op = "initialize_client" =>
       LET chat == Unwrap(result'.ret)
           recent == chat_repo[result'.arena].recent
           welcome == chat.inbox[Len(chat.inbox)]
       IN /\ chat_repo' = chat_repo
          /\ chat.muted = {}
          /\ Len(chat.inbox) = Len(recent) + 1
          /\ \A i \in DOMAIN recent :
               /\ chat.inbox[i].message = recent[i].message
               /\ chat.inbox[i].attribution = recent[i].attribution
          /\ welcome.attribution = None
          /\ welcome.message.authority
          /\ welcome.message.message =
               [kind |-> "Welcome", server_number |-> result'.args.server_number,
                arena_id |-> result'.args.arena_id]]_vars

\* A client is initialized from a full history whose oldest entry has
\* made room for a new one.
C19_Witness ==
  /\ result.op = "initialize_client"
  /\ Len(chat_repo[Origin].recent) = RecentCapacity
  /\ Len(chat_repo[Origin].saved) > RecentCapacity
  /\ Len(Unwrap(result.ret).inbox) = RecentCapacity + 1

\* C20: mute, unmute and report find their target in the attribution the
\* requester's own inbox stores for the message number.  Where it stores
\* none (no such number, the requester's own message, a system message)
\* the request returns "unknown sender" and changes no muted set, no
\* reported set, no metric, and forwards nothing; where it stores one, a
\* request that succeeds acts on the address stored there.
C20_UnknownSenderChangesNothing ==
  [][result'.op \in {"mute_player", "unmute_player", "report"} =>
       LET before == Reporter.client
           after == players'[result'.arena][Unwrap(result'.player_id)].client
       IN IF ReportedSender = None
          THEN /\ result'.ret = Some([err |-> "unknown sender"])
               /\ players' = players
               /\ metric_repo' = metric_repo
               /\ plasma' = plasma
               /\ requests' = requests
               /\ web_socket' = web_socket
          ELSE "ok" \in DOMAIN Unwrap(result'.ret) =>
                 LET ip == Unwrap(ReportedSender).sender_ip
                 IN CASE result'.op = "mute_player" ->
                           after.chat.muted = before.chat.muted \cup {ip}
                      [] result'.op = "unmute_player" ->
                           after.chat.muted = before.chat.muted \ {ip}
                      [] result'.op = "report" ->
                           /\ ~Moderator(before) => after.reported = before.reported \cup {ip}
                           /\ before.session.visitor_id # None =>
                                /\ Len(plasma'[result'.arena]) = Len(plasma[result'.arena]) + 1
                                /\ plasma'[result'.arena][Len(plasma'[result'.arena])].chat_id =
                                     Unwrap(ReportedSender).chat_id]_vars

\* A client has asked to report the sender of its own message, which
\* another client's inbox attributes to it.
C20_Witness ==
  /\ result.op = "report"
  /\ result.args.message_number \in DOMAIN PrePlayer.client.chat.inbox
  /\ ~PrePlayer.client.chat.inbox[result.args.message_number].message.authority
  /\ ResolvedSender = None
  /\ \E p \in DOMAIN players[result.arena] :
        LET attribution == InboxAttribute(players[result.arena][p].client.chat.inbox,
                                          result.args.message_number)
        IN attribution # None
           /\ Unwrap(attribution).sender_ip = PrePlayer.client.ip_address
  /\ result.ret = Some([err |-> "unknown sender"])

\* C21: an unmute whose message number resolves to a sender returns
\* Unmuted(number), the same whether or not the sender's address was in the
\* requester's muted set, and afterwards the address is not in the set;
\* nothing else of the requester changes.
C21_UnmuteAlwaysAccepted ==
  [][(result'.op = "unmute_player" /\ ReportedSender # None) =>
       /\ result'.ret = Some([ok |-> [kind |-> "Unmuted",
                                      number |-> result'.args.message_number]])
       /\ players' = [players EXCEPT
                        ![result'.arena][Unwrap(result'.player_id)].client.chat.muted =
                          @ \ {Unwrap(ReportedSender).sender_ip}]]_vars

\* A client has unmuted a sender that it had not muted.
C21_Witness ==
  /\ result.op = "unmute_player"
  /\ ResolvedSender # None
  /\ Unwrap(ResolvedSender).sender_ip \notin PrePlayer.client.chat.muted
  /\ result.ret = Some([ok |-> [kind |-> "Unmuted", number |-> result.args.message_number]])

\* C22: a message broadcast with an attribution is added to the inbox of
\* every client that has not muted the attribution's address, and of no
\* client that has; the copy for the sender itself carries no attribution
\* and is always added, also when the sender has muted its own address.  A
\* client's muted set changes by its own mute and unmute only.
C22_MutedSenderNotDelivered ==
  [][/\ result'.op = "broadcast_message" =>
          \A p \in DOMAIN players[result'.arena] :
             LET entry == result'.args.entry
                 attribution == IF result'.player_id = Some(p) THEN None
                                ELSE entry.attribution
                 chat == players[result'.arena][p].client.chat
                 after == players'[result'.arena][p].client.chat
             IN /\ after.muted = chat.muted
                /\ after.inbox =
                     IF attribution # None /\ Unwrap(attribution).sender_ip \in chat.muted
                     THEN chat.inbox
                     ELSE Append(chat.inbox, [message |-> entry.message,
                                              attribution |-> attribution])
     /\ \A a \in Arenas : \A p \in DOMAIN players[a] \cap DOMAIN players'[a] :
          players'[a][p].client.chat.muted # players[a][p].client.chat.muted =>
            /\ result'.op \in {"mute_player", "unmute_player"}
            /\ result'.arena = a /\ result'.player_id = Some(p)]_vars

\* A client that has muted its own address has sent a message, and has it
\* in its inbox; another client has muted that address, and has not.
C22_Witness ==
  /\ result.op = "broadcast_message"
  /\ result.player_id # None
  /\ PrePlayer.client.ip_address \in PrePlayer.client.chat.muted
  /\ Len(PostPlayer.client.chat.inbox) = Len(PrePlayer.client.chat.inbox) + 1
  /\ \E p \in DOMAIN players[result.arena] :
        LET chat == players[result.arena][p].client.chat
        IN /\ Some(p) # result.player_id
           /\ PrePlayer.client.ip_address \in chat.muted
           /\ \A i \in DOMAIN chat.inbox :
                chat.inbox[i].attribution # result.args.entry.attribution

\* C23: a send_chat whose message starts with a slash, with or without a
\* command word after it, forwards no SendChat request for Broadcast or for
\* a team, on either way to the relay, and puts no Chat in the server's own
\* mailbox, from where it would reach the other clients' inboxes.
C23_SlashNeverSentLiterally ==
  [][(result'.op = "send_chat" /\ result'.args.message.slash) =>
       /\ \A request \in NewSendChats(result'.arena) : request.recipient = "None"
       /\ local' = local]_vars

\* A message that is a command: a slash and a first word.
IsCommand(message) == message.slash /\ message.words # <<>>
\* The reply the last command left in its sender's inbox.
LastReply ==
  LET inbox == PostPlayer.client.chat.inbox IN inbox[Len(inbox)].message.message.message

\* C24: a send_chat of a command by an active client player returns Sent,
\* whatever the command; the sender's inbox grows by exactly one entry, an
\* authoritative message of no sender; every other player, of this and of
\* every other arena, is as before, and nothing reaches the server's mailbox.
C24_CommandAlwaysSent ==
  [][(/\ result'.op = "send_chat" /\ IsCommand(result'.args.message)
      /\ result'.pre # None
      /\ Unwrap(result'.pre).inner = "Client"
      /\ RegulatorActive(Unwrap(result'.pre).regulator)) =>
       LET a == result'.arena
           p == Unwrap(result'.player_id)
           before == players[a][p].client.chat.inbox
           after == players'[a][p].client.chat.inbox
       IN /\ result'.ret = Some([ok |-> [kind |-> "Sent"]])
          /\ Len(after) = Len(before) + 1
          /\ SubSeq(after, 1, Len(before)) = before
          /\ after[Len(after)].attribution = None
          /\ after[Len(after)].message.authority
          /\ after[Len(after)].message.message.kind = "Raw"
          /\ \A q \in DOMAIN players[a] \ {p} : players'[a][q] = players[a][q]
          /\ \A b \in Arenas \ {a} : players'[b] = players[b]
          /\ local' = local]_vars

\* A command that is none, and one whose argument does not parse, have both
\* been answered in the sender's inbox, and Sent.
C24_Witness ==
  /\ result.op = "send_chat" /\ result.pre # None
  /\ result.ret = Some([ok |-> [kind |-> "Sent"]])
  /\ result.args.message = Command(<<Word("slow"), Word("banana")>>)
  /\ Len(PostPlayer.client.chat.inbox) = Len(PrePlayer.client.chat.inbox) + 1
  /\ LastReply = "failed to parse argument as minutes"

\* The requests a step has added to what arena a asked of the relay.
NewRequests(a) == SubSeq(plasma'[a], Len(plasma[a]) + 1, Len(plasma'[a]))
\* The last call was made by a client that is no moderator.
ByNonModerator ==
  /\ result.pre # None
  /\ PrePlayer.inner = "Client"
  /\ ~PrePlayer.client.session.moderator
\* The last call was a chat message that is a /safe or /slow command.
ModeCommandSent ==
  /\ result.op = "send_chat"
  /\ IsCommand(result.args.message)
  /\ result.args.message.words[1] \in {Word("safe"), Word("slow")}

ByModerator ==
  /\ result.pre # None
  /\ PrePlayer.inner = "Client"
  /\ PrePlayer.client.session.moderator
  /\ PrePlayer.client.session.visitor_id # None

BotsCommandSent ==
  /\ result.op = "send_chat" /\ result.pre # None
  /\ IsCommand(result.args.message)
  /\ result.args.message.words[1] = Word("bots")
  /\ Len(result.args.message.words) >= 2
  /\ PrePlayer.inner = "Client"
  /\ deployment.debug_assertions \/ PrePlayer.client.session.admin
\* The hard ceiling of the build on the bot count.
Ceiling == IF deployment.debug_assertions THEN HardMaxBotsDebug ELSE HardMaxBots
\* The number a u32 of two limbs stands for.
ValueOf(n) == n.hi * Limb + n.lo

\* C27: a /bots command of a permitted sender with a count above the
\* ceiling of the build is answered "error" and leaves the settings as they
\* were; with a count up to the ceiling it sets the bot count to that count;
\* with "default" it unsets the bot count.
C27_BotsAboveCeilingRejected ==
  [][BotsCommandSent' =>
       LET a == result'.arena
           count == result'.args.message.words[2]
       IN /\ (count.kind = "number" /\ count.suffix = "" /\ ValueOf(count.value) > Ceiling) =>
               /\ LastReply' = "error"
               /\ settings' = settings
          /\ (count.kind = "number" /\ count.suffix = "" /\ ValueOf(count.value) <= Ceiling) =>
               /\ LastReply' = "OK"
               /\ settings' = [settings EXCEPT ![a].bots = Some(ValueOf(count.value))]
          /\ count = Word("default") =>
               /\ LastReply' = "OK"
               /\ settings' = [settings EXCEPT ![a].bots = None]]_vars

\* In a production build, whose ceiling is 1024, an admin has sent
\* /bots 2000 to an arena whose bot count was set: "error", and the count
\* is as it was set.
C27_Witness ==
  /\ BotsCommandSent /\ ~deployment.debug_assertions
  /\ result.args.message.words[2] = Number(U32Of(2000), "")
  /\ LastReply = "error"
  /\ settings[result.arena].bots \in {Some(n) : n \in 1 .. HardMaxBots}

\* The step has asked the relay for the mode of the command, for n minutes.
ModeSetTo(a, slow, n) ==
  \E i \in DOMAIN NewRequests(a) :
    /\ NewRequests(a)[i].kind = "ModerateChat"
    /\ NewRequests(a)[i].slow_mode = (IF slow THEN Some(U32Of(n)) ELSE None)
    /\ NewRequests(a)[i].safe_mode = (IF slow THEN None ELSE Some(U32Of(n)))
\* The step has asked the relay for no mode.
NoModeSet == \A a \in Arenas : \A i \in DOMAIN NewRequests(a) :
  NewRequests(a)[i].kind # "ModerateChat"

\* C28: of a /slow or /safe command of a moderator, the argument "none" or
\* "off" sets the mode to 0 minutes, a number N and "Nm" to N, "Nh" to 60*N
\* (N below 65536); any other word is answered "failed to parse argument as
\* minutes" and no argument "missing number of minutes", and these two set
\* no mode.
C28_MinutesParsed ==
  [][(ModeCommandSent' /\ ByModerator') =>
       LET a == result'.arena
           words == result'.args.message.words
           slow == words[1] = Word("slow")
       IN IF Len(words) < 2
          THEN LastReply' = "missing number of minutes" /\ NoModeSet
          ELSE LET arg == words[2]
               IN /\ arg \in {Word("none"), Word("off")} =>
                       LastReply' = "done" /\ ModeSetTo(a, slow, 0)
                  /\ (arg.kind = "word" /\ arg \notin {Word("none"), Word("off")}) =>
                       LastReply' = "failed to parse argument as minutes" /\ NoModeSet
                  /\ (arg.kind = "number" /\ arg.suffix \in {"", "m"} /\ arg.value.hi = 0) =>
                       LastReply' = "done" /\ ModeSetTo(a, slow, arg.value.lo)
                  /\ (arg.kind = "number" /\ arg.suffix = "h" /\ arg.value.hi = 0) =>
                       LastReply' = "done" /\ ModeSetTo(a, slow, 60 * arg.value.lo)]_vars

\* A moderator has sent /slow 2h: done, and the relay is asked for slow
\* mode for 120 minutes.
C28_Witness ==
  /\ ModeCommandSent /\ ByModerator
  /\ result.args.message = Command(<<Word("slow"), Number(U32Of(2), "h")>>)
  /\ LastReply = "done"
  /\ \E i \in DOMAIN plasma[result.arena] :
        /\ plasma[result.arena][i].kind = "ModerateChat"
        /\ plasma[result.arena][i].slow_mode = Some(U32Of(120))
        /\ plasma[result.arena][i].safe_mode = None

\* The last call was a /slow or /safe command of a moderator whose argument
\* is a number of hours that is more minutes than a u32 holds.
HoursOverflowSent ==
  /\ ModeCommandSent /\ ByModerator
  /\ Len(result.args.message.words) >= 2
  /\ result.args.message.words[2].kind = "number"
  /\ result.args.message.words[2].suffix = "h"
  /\ result.args.message.words[2].value.hi <= U16Max
  /\ ValueOf(result.args.message.words[2].value) > MaxWholeHours

\* C29, as claimed: hours that overflow are accepted and set the mode to
\* the most minutes a u32 holds.
C29_HoursOverflowSaturates ==
  [][HoursOverflowSent' =>
       /\ LastReply' = "done"
       /\ \E i \in DOMAIN NewRequests(result'.arena) :
            LET request == NewRequests(result'.arena)[i]
            IN /\ request.kind = "ModerateChat"
               /\ U32(U16Max, U16Max) \in {Unwrap(m) : m \in {request.slow_mode, request.safe_mode} \ {None}}]_vars

\* C29, as amended: hours that overflow are rejected: the command is
\* answered "failed to parse argument as minutes", still Sent, and no mode
\* is set.
C29_HoursOverflowRejected ==
  [][HoursOverflowSent' =>
       /\ LastReply' = "failed to parse argument as minutes"
       /\ result'.ret = Some([ok |-> [kind |-> "Sent"]])
       /\ NoModeSet]_vars

\* A moderator has sent /slow with one hour more than fits, and has been
\* told that the argument does not parse.
C29_Witness ==
  /\ HoursOverflowSent
  /\ result.args.message.words[2].value = U32Of(MaxWholeHours + 1)
  /\ LastReply = "failed to parse argument as minutes"
  /\ \A i \in DOMAIN plasma[result.arena] : plasma[result.arena][i].kind # "ModerateChat"

\* C30: in every state the bot count of an arena's settings, when set, is
\* at most the hard ceiling of the build, and in an arena whose realm is not
\* the public default one it is at least the game's minimum and at most the
\* game's maximum of bots of a temporary server.
C30_BotCountWithinBounds ==
  \A a \in Arenas :
    settings[a].bots # None =>
      LET bots == Unwrap(settings[a].bots)
      IN /\ bots <= Ceiling
         /\ ~IsPublicDefault(topology(a).local_arena_id.realm_id) =>
              /\ bots >= deployment.min_temporary_server_bots
              /\ bots <= deployment.max_temporary_server_bots

\* C31: a tally_victory whose victor is a client the regulator does not
\* hold active adds no quest event to the victor and leaves its claims as
\* they were.
C31_OnlyActiveScore ==
  [][(/\ result'.op = "tally_victory" /\ result'.pre # None
      /\ Unwrap(result'.pre).inner = "Client"
      /\ ~RegulatorActive(Unwrap(result'.pre).regulator)) =>
       LET after == players'[result'.arena][Unwrap(result'.player_id)].client
           before == Unwrap(result'.pre).client
       IN after.quests = before.quests /\ after.claims = before.claims]_vars

\* The claim value `after` is one more than `before`, limb by limb.
IsSuccessor(before, after) ==
  \E i \in 1 .. ClaimLimbs :
    /\ before[i] < U16Max /\ after[i] = before[i] + 1
    /\ \A j \in 1 .. ClaimLimbs : j > i => before[j] = U16Max /\ after[j] = 0
    /\ \A j \in 1 .. ClaimLimbs : j < i => after[j] = before[j]

\* C35: a tally_victory(victor, defeated) changes nothing at all when one
\* of the two players is missing or the victor is no client.  Otherwise
\* the victor's victories claim becomes one more than it was (with nothing
\* counting as 0), or stays at the most a claim holds, when the arena's
\* realm is the public default one and the defeated player is no bot, and
\* stays as it was in every other case.
C35_VictoriesCounted ==
  [][result'.op = "tally_victory" =>
       LET a == result'.arena
           victor == Unwrap(result'.player_id)
           defeated == result'.args.defeated
           both == victor \in DOMAIN players[a] /\ defeated \in DOMAIN players[a]
       IN IF ~both \/ players[a][victor].inner # "Client"
          THEN players' = players
          ELSE LET before == players[a][victor].client.claims["victories"]
                   after == players'[a][victor].client.claims["victories"]
                   value == IF before = None THEN ClaimOf(0) ELSE Unwrap(before)
               IN IF /\ IsPublicDefault(topology(a).local_arena_id.realm_id)
                     /\ players[a][defeated].inner # "Bot"
                  THEN /\ after # None
                       /\ IF value = ClaimMax THEN Unwrap(after) = ClaimMax
                          ELSE IsSuccessor(value, Unwrap(after))
                  ELSE after = before]_vars

\* In the public default realm a client with as many victories as a claim
\* holds has defeated a client: a Victory event more, and as many victories.
C35_Witness ==
  /\ result.op = "tally_victory" /\ result.pre # None
  /\ IsPublicDefault(topology(result.arena).local_arena_id.realm_id)
  /\ PrePlayer.inner = "Client"
  /\ result.args.defeated \in DOMAIN players[result.arena]
  /\ players[result.arena][result.args.defeated].inner = "Client"
  /\ PrePlayer.client.claims["victories"] = Some(ClaimMax)
  /\ PostPlayer.client.claims["victories"] = Some(ClaimMax)
  /\ VictoryQuests(PostPlayer.client.quests) = VictoryQuests(PrePlayer.client.quests) + 1

\* The step is a call of send: the request, its arena's server, and the
\* server's mailbox and channel before and after.
SendStep == result'.op = "send"
Sent == result'.args.request
SendServer == topology(result'.arena).local_server_id
ForLocalOnly == Sent.kind = "SendServerMessage" /\ Sent.recipients = {SendServer}
ElsewhereUnchanged ==
  \A s \in Servers \ {SendServer} : local'[s] = local[s] /\ web_socket'[s] = web_socket[s]

\* C32: outside loopback mode a SendServerMessage whose recipients are exactly
\* the local server arrives in the local mailbox as one Parley whose sender
\* is the local server id and the channel is left alone; any other request
\* leaves the local mailbox alone and can only go on the channel.
C32_FastPathOnlyForLocal ==
  [][(SendStep /\ ~deployment.no_plasma) =>
       /\ ElsewhereUnchanged
       /\ IF ForLocalOnly
          THEN /\ local'[SendServer] =
                    Append(local[SendServer],
                           [kind |-> "Parley", sender |-> SendServer, message |-> Sent.message])
               /\ web_socket'[SendServer] = web_socket[SendServer]
          ELSE /\ local'[SendServer] = local[SendServer]
               /\ web_socket'[SendServer] \in
                    {web_socket[SendServer], Append(web_socket[SendServer], Sent)}]_vars

\* A server message for several servers, the local one among them, has gone
\* on the channel, and one for the local server alone is in the mailbox.
C32_Witness ==
  /\ result.op = "send"
  /\ ~deployment.no_plasma
  /\ LET s == topology(result.arena).local_server_id
     IN /\ result.args.request.kind = "SendServerMessage"
        /\ result.args.request.recipients = Servers
        /\ web_socket[s] = <<result.args.request>>
        /\ Len(local[s]) = 1
        /\ local[s][1].kind = "Parley"
        /\ local[s][1].sender = s

\* The request of the step is bound for the channel and the channel cannot
\* take it.
ChannelBound == ~deployment.no_plasma /\ ~ForLocalOnly
CannotTake == ~deployment.web_socket \/ Len(web_socket[SendServer]) >= ChannelCapacity

\* C33: a send whose request is bound for a channel that is full or absent
\* returns without panicking and leaves mailboxes and channels as they were;
\* no send changes players, chat or settings; and a channel only ever gains
\* the request of the send that is being made, so that a dropped request
\* does not turn up later.
C33_DropOnFull ==
  [][/\ (SendStep /\ ChannelBound /\ CannotTake) =>
          /\ ~result'.panic
          /\ local' = local
          /\ web_socket' = web_socket
     /\ SendStep => (players' = players /\ chat_repo' = chat_repo /\ settings' = settings)
     /\ \A s \in Servers :
          \/ web_socket'[s] = web_socket[s]
          \/ web_socket[s] # <<>> /\ web_socket'[s] = Tail(web_socket[s])
          \/ SendStep /\ s = SendServer /\ web_socket'[s] = Append(web_socket[s], Sent)]_vars

\* A request was sent while the channel was full of another request, and the
\* channel still holds only that other request.
C33_Witness ==
  /\ result.op = "send"
  /\ ~deployment.no_plasma
  /\ deployment.web_socket
  /\ LET s == topology(result.arena).local_server_id
         request == result.args.request
     IN /\ ~(request.kind = "SendServerMessage" /\ request.recipients = {s})
        /\ Len(web_socket[s]) = ChannelCapacity
        /\ \A i \in 1 .. Len(web_socket[s]) : web_socket[s][i] # request
        /\ Len(requests[result.arena]) > ChannelCapacity

\* C34: in loopback mode a SendChat adds exactly one Chat to the local
\* mailbox, with chat id (request arena id, local server id, request
\* timestamp) and the request's sender, recipient and IP address; any other
\* request adds nothing to the mailbox; and nothing goes on the channel.
C34_LoopbackConvertsChat ==
  [][(SendStep /\ deployment.no_plasma) =>
       /\ ElsewhereUnchanged
       /\ web_socket'[SendServer] = web_socket[SendServer]
       /\ IF Sent.kind = "SendChat"
          THEN /\ Len(local'[SendServer]) = Len(local[SendServer]) + 1
               /\ SubSeq(local'[SendServer], 1, Len(local[SendServer])) = local[SendServer]
               /\ LET update == local'[SendServer][Len(local'[SendServer])]
                  IN /\ update.kind = "Chat"
                     /\ update.chat_id = [arena_id |-> Sent.arena_id,
                                          server_id |-> SendServer,
                                          message_id |-> Sent.timestamp]
                     /\ update.player_id = Sent.player_id
                     /\ update.alias = Sent.alias
                     /\ update.visitor_id = Sent.visitor_id
                     /\ update.team_name = Sent.team_name
                     /\ update.admin = Sent.admin
                     /\ update.authentic = Sent.authentic
                     /\ update.recipient = Sent.recipient
                     /\ update.ip_address = Sent.ip_address
          ELSE local'[SendServer] = local[SendServer]]_vars

\* In loopback mode a chat message was converted and an acknowledgment for
\* the other server was then dropped, the channel staying empty.
C34_Witness ==
  /\ result.op = "send"
  /\ deployment.no_plasma
  /\ deployment.web_socket
  /\ LET s == topology(result.arena).local_server_id
     IN /\ result.args.request.kind = "SendServerMessage"
        /\ result.args.request.recipients = Servers \ {s}
        /\ web_socket[s] = <<>>
        /\ Len(local[s]) = 1
        /\ local[s][1].kind = "Chat"
        /\ local[s][1].chat_id.server_id = s

\* The copies of payload k's player: the sender's, while it is still in the
\* sending arena, and the ones receive_player made of the payload.
SentCopyActive(k) ==
  LET e == issued[k]
      p == e.body.old_player_id
  IN p \in DOMAIN players[e.from] /\ RegulatorActive(players[e.from][p].regulator)
ReceivedCopies(k) ==
  {q \in DOMAIN players[issued[k].to] : players[issued[k].to][q].origin = Some(k)}

\* C36: for every payload send_player returned, the sender's copy of the
\* player is not active; the destination has a copy only once the payload
\* was received, joining or active; so the player is never active in both
\* arenas.
C36_ActiveInAtMostOneArena ==
  \A k \in 1 .. Len(issued) :
    /\ ~SentCopyActive(k)
    /\ ReceivedCopies(k) # {} => issued[k].deliveries > 0
    /\ \A q \in ReceivedCopies(k) :
         /\ players[issued[k].to][q].regulator \in {"Joining", "Active"}
         /\ ~(SentCopyActive(k) /\ RegulatorActive(players[issued[k].to][q].regulator))

\* The received copy is active while the sender's copy is still in its
\* arena, leaving.
C36_Witness ==
  \E k \in 1 .. Len(issued) :
    /\ issued[k].body.old_player_id \in DOMAIN players[issued[k].from]
    /\ players[issued[k].from][issued[k].body.old_player_id].regulator = "Leaving"
    /\ \E q \in ReceivedCopies(k) :
         RegulatorActive(players[issued[k].to][q].regulator)

====
